---------------------------- MODULE Spec2Model ----------------------------
(***************************************************************************)
(* Model of the storage-and-security core of gineco-termux:                *)
(*   - SessionManager (src/src/security.js): the in-memory session table   *)
(*     with lazy, activity-based expiry and the periodic sweep;            *)
(*   - the record store (src/src/database.js): one JSON document per user  *)
(*     file, optionally encrypted with the cipher of src/src/security.js.  *)
(*   - the message processor (src/src/processor.js), isValidPIN,          *)
(*     validateConfig and retryWithBackoff (src/src/utils.js).             *)
(* The specifications share the clock: SessionSpec and SweepSpec drive     *)
(* the session table, StoreSpec and its variants drive the files, and the  *)
(* others drive one function each.                                         *)
(***************************************************************************)
EXTENDS Integers, Sequences, FiniteSets, TLC

(***************************************************************************)
(* Bounds of the model.                                                    *)
(***************************************************************************)
\* Date.now() is read from the variable now, which runs from 0 to MaxClock.
MaxClock == 3
\* SessionManager's constructor parameter timeoutMs, in clock units.
timeoutMs == 1
\* What crypto.randomBytes(16) may draw for a session token.
Randoms == {"r1", "r2"}

\* What Math.random (record ids) and crypto.randomBytes (the cipher's iv) may
\* draw in the record store.
StoreRandoms == {"r1"}

\* The user identifiers session operations are called with.
SessionUsers == {"u1", "u2"}

\* JavaScript's undefined: Map.get on a missing key, a function without a
\* return statement.
undefined == [undefined |-> TRUE]

VARIABLES
    now,        \* the wall clock, what Date.now() and new Date() read
    sessions,   \* SessionManager.sessions: the Map, as its set of entries
    ret,        \* the latest call: its name, arguments and return value
    lastOk,     \* per user with a session: the instant of its createSession
                \* or of its latest successful validateSession
    dead,       \* per user: the token a validateSession rejected for expiry
                \* since the latest createSession
    files,      \* the data directory: per file path, the file's content
    masterKey,  \* MASTER_KEY of security.js
    call,       \* the latest call of the record store and what it returned
    tasks,      \* per concurrent caller of addRecord: how far its call is
                \* and what it holds
    pin,        \* the argument of isValidPIN and what it returned
    proc,       \* the latest call of the message processor and its reply
    sweepAt,    \* the instant the setInterval timer of security.js fires next
    retry       \* the running call of retryWithBackoff: where it is, its
                \* locals, and what it has done so far

sessionVars == <<ret, sessions, lastOk, dead>>
storeVars == <<files, masterKey, call, tasks>>
otherVars == <<pin, proc, sweepAt, retry>>
vars == <<now, ret, sessions, lastOk, dead, files, masterKey, call, tasks,
          pin, proc, sweepAt, retry>>

(***************************************************************************)
(* JavaScript Map, keyed by entry.key, holding entry.value.                *)
(***************************************************************************)
MapHas(m, k) == \E e \in m : e.key = k

MapGet(m, k) == IF MapHas(m, k) THEN (CHOOSE e \in m : e.key = k).value ELSE undefined

\* Mutant: set() keeps the entry the key already had.
MapSet_keepOld(m, k, v) == m \cup {[key |-> k, value |-> v]}

MapSet(m, k, v) == {e \in m : e.key # k} \cup {[key |-> k, value |-> v]}

MapDelete(m, k) == {e \in m : e.key # k}

MapKeys(m) == {e.key : e \in m}

(***************************************************************************)
(* generateSessionToken: SHA-256 of `${userId}-${timestamp}-${random}`.    *)
(* The digest is modelled as injective in its input.                       *)
(***************************************************************************)
generateSessionToken(userId, timestamp, random) ==
    [sha256 |-> <<userId, timestamp, random>>]

\* A token no createSession ever returns.
WrongToken == [sha256 |-> <<"wrong-token">>]

(***************************************************************************)
(* The record of a call:                                                   *)
(*   op, userId  its name and its userId argument (NoUser when it has none)*)
(*   token       validateSession: the token argument; createSession: the   *)
(*               token returned                                            *)
(*   old         createSession: the token of the session it overwrote      *)
(*   result      validateSession: the boolean returned (FALSE in the calls *)
(*               that return no boolean)                                   *)
(*   idle        the timeSinceActivity it computed, else NotMeasured       *)
(*   gone        the keys it deleted from the table                        *)
(***************************************************************************)
NotMeasured == 0 - 1

NoUser == ""

Call(op, userId, token, old, result, idle, gone) ==
    [op |-> op, userId |-> userId, token |-> token, old |-> old,
     result |-> result, idle |-> idle, gone |-> gone]

\* lastOk once the sessions of the users in gone are removed.
Forget(h, gone) == [u \in SessionUsers |-> IF u \in gone THEN undefined ELSE h[u]]

(***************************************************************************)
(* JavaScript values of the record store. A string is Str of the sequence  *)
(* of its characters (a word that is never cut counts as one character),   *)
(* an object is a function from its keys.                                  *)
(***************************************************************************)
Str(chars) == [str |-> chars]

null == [null |-> TRUE]

\* What `v || other` takes for false.
Falsy(v) == v = undefined \/ v = null \/ v = Str(<<>>)

\* The object o with the keys of p added or overwritten: {...o, ...p}.
Spread(o, p) ==
    [k \in DOMAIN o \cup DOMAIN p |-> IF k \in DOMAIN p THEN p[k] ELSE o[k]]

\* o[name], undefined when o has no such key.
Prop(o, name) == IF name \in DOMAIN o THEN o[name] ELSE undefined

(***************************************************************************)
(* Dates. The clock counts DayMs units per calendar day.                   *)
(***************************************************************************)
DayMs == 2

\* Date.prototype.toISOString: the day and the time of day, as text.
toISOString(t) == Str(<<ToString(t \div DayMs), "T", ToString(t % DayMs), "Z">>)

IsISOString(v) ==
    /\ "str" \in DOMAIN v
    /\ Len(v.str) = 4
    /\ v.str[2] = "T"
    /\ v.str[4] = "Z"
    /\ \E d \in 0..(MaxClock \div DayMs) : ToString(d) = v.str[1]
    /\ \E m \in 0..(DayMs - 1) : ToString(m) = v.str[3]

NaN == 0 - 1

\* new Date(v).getTime(), NaN for what is no date.
DateParse(v) ==
    IF IsISOString(v)
    THEN (CHOOSE d \in 0..(MaxClock \div DayMs) : ToString(d) = v.str[1]) * DayMs
             + (CHOOSE m \in 0..(DayMs - 1) : ToString(m) = v.str[3])
    ELSE NaN

\* formatDate: the calendar day of instant t, zero-padded.
formatDate(t) ==
    LET day == t \div DayMs
    IN Str(<<ToString(day \div 10), ToString(day % 10)>>)

getTodayDate(t) == formatDate(t)

\* generateRecordId: `${Date.now()}-${random}`.
generateRecordId(t, random) == Str(<<ToString(t), "-", random>>)

(***************************************************************************)
(* User identifiers and file paths.                                        *)
(***************************************************************************)
Digits == {"0", "1", "2", "3", "4", "5", "6", "7", "8", "9"}

WhatsAppSuffix == "@s.whatsapp.net"

\* The identifiers the store is called with.
UserIds == {<<"1", WhatsAppSuffix>>}

\* The identifiers of the calls that are checked for interference: the one
\* above, one of another kind with the same digits, one of another number.
IsolationIds == UserIds \cup {<<"1", "@lid">>, <<"2", WhatsAppSuffix>>}

\* String.prototype.replace(pattern, ''): the first occurrence is removed.
RECURSIVE ReplaceFirst(_, _)
ReplaceFirst(chars, pattern) ==
    IF chars = <<>> THEN <<>>
    ELSE IF Head(chars) = pattern THEN Tail(chars)
    ELSE <<Head(chars)>> \o ReplaceFirst(Tail(chars), pattern)

IsDigit(c) == c \in Digits

sanitizePhoneNumber(phoneNumber) ==
    SelectSeq(ReplaceFirst(phoneNumber, WhatsAppSuffix), IsDigit)

\* Mutant: every identifier gets the same path.
getUserDataPath_shared(userId) == <<"users", ".json">>

getUserDataPath(userId) == sanitizePhoneNumber(userId) \o <<".json">>

Paths == {getUserDataPath(u) : u \in UserIds \cup IsolationIds}

(***************************************************************************)
(* File contents. A file holds the text of a JSON value, the blob of       *)
(* encryptData, or the beginning of either that a failed write left.       *)
(***************************************************************************)
NoFile == [exists |-> FALSE]

Truncated == [truncated |-> TRUE]

\* JSON.stringify drops the keys whose value is undefined.
DropUndefined(o) == [k \in {x \in DOMAIN o : o[x] # undefined} |-> o[k]]

JSONstringify(data) ==
    [json |-> [data EXCEPT !.records =
                   [i \in DOMAIN data.records |-> DropUndefined(data.records[i])]]]

IsJSON(text) == "json" \in DOMAIN text

JSONparse(text) == text.json

(***************************************************************************)
(* The cipher: AES-256-GCM under the key scrypt derives from DEVICE_ID.    *)
(***************************************************************************)
DeviceId == "gyneco-bot-default-key"

scryptSync(identifier, salt) == [scrypt |-> <<identifier, salt>>]

\* Mutant: the key is derived anew, from another identifier, once cached.
getMasterKey_rederive(key) ==
    IF key = null THEN scryptSync(DeviceId, "salt")
    ELSE scryptSync("another-device", "salt")

\* getMasterKey: the cached key, derived on first use.
getMasterKey(key) == IF key = null THEN scryptSync(DeviceId, "salt") ELSE key

\* A UTF-16 code unit that is half of a pair without its other half, and
\* the character U+FFFD.
LoneSurrogate == "uD800"
ReplacementChar == "uFFFD"

\* cipher.update(plaintext, 'utf8', ...) and decipher.update(..., 'utf8'):
\* the text that comes back from the UTF-8 bytes of plaintext. A lone
\* surrogate has no UTF-8 form and is written as U+FFFD. The text of
\* JSON.stringify holds lone surrogates as escapes and is written as it is.
toUTF8(plaintext) ==
    IF "str" \in DOMAIN plaintext
    THEN Str([i \in DOMAIN plaintext.str |->
                 IF plaintext.str[i] = LoneSurrogate
                 THEN ReplacementChar ELSE plaintext.str[i]])
    ELSE plaintext

\* The blob of encryptData: iv, authentication tag and ciphertext.
encryptData(plaintext, key, iv) ==
    [iv |-> iv,
     authTag |-> [gmac |-> <<key, iv, toUTF8(plaintext)>>],
     encrypted |-> [aes |-> <<key, iv, toUTF8(plaintext)>>]]

IsBlob(text) == {"iv", "authTag", "encrypted"} \subseteq DOMAIN text

\* decipher.final verifies the tag under the key and the blob's iv.
Authentic(blob, key) ==
    /\ blob.encrypted.aes[1] = key
    /\ blob.encrypted.aes[2] = blob.iv
    /\ blob.authTag.gmac = blob.encrypted.aes

\* decryptData: ok with the plaintext, or the exception it throws; key is
\* the master key after the call.
decryptData(ciphertext, key) ==
    IF ~IsBlob(ciphertext)
    THEN [threw |-> TRUE, value |-> undefined, masterKey |-> key]
    ELSE IF ~Authentic(ciphertext, getMasterKey(key))
    THEN [threw |-> TRUE, value |-> undefined, masterKey |-> getMasterKey(key)]
    ELSE [threw |-> FALSE, value |-> ciphertext.encrypted.aes[3],
          masterKey |-> getMasterKey(key)]

(***************************************************************************)
(* What the environment does during a call: whether the read, the          *)
(* encryption, the write and the unlink succeed. A write that fails leaves *)
(* the file as it was ("fail") or cut short ("partial"). At most one of    *)
(* them fails in a call.                                                   *)
(***************************************************************************)
NoFault == [read |-> "ok", encrypt |-> "ok", write |-> "ok", unlink |-> "ok"]

Faults == {NoFault,
           [NoFault EXCEPT !.read = "fail"],
           [NoFault EXCEPT !.encrypt = "fail"],
           [NoFault EXCEPT !.write = "fail"],
           [NoFault EXCEPT !.write = "partial"],
           [NoFault EXCEPT !.unlink = "fail"]}

(***************************************************************************)
(* database.js                                                             *)
(***************************************************************************)
LoadError == Str(<<"Falha ao carregar dados anteriores">>)

\* The empty structure loadUserData returns when there is no file.
EmptyData(userId, t) ==
    [userId |-> Str(sanitizePhoneNumber(userId)),
     records |-> <<>>,
     metadata |-> [createdAt |-> toISOString(t), lastUpdate |-> toISOString(t),
                   totalRecords |-> 0]]

\* The empty structure of its catch block.
ErrorData(userId, t) ==
    [userId |-> Str(sanitizePhoneNumber(userId)),
     records |-> <<>>,
     metadata |-> [createdAt |-> toISOString(t), lastUpdate |-> toISOString(t),
                   totalRecords |-> 0, error |-> LoadError]]

\* Mutant: a file that cannot be loaded is reported like a missing one.
loadUserData_noMarker(userId, encrypted, fs, key, t, io) ==
    LET content == fs[getUserDataPath(userId)]
        dec == IF encrypted THEN decryptData(content, key)
               ELSE [threw |-> FALSE, value |-> content, masterKey |-> key]
    IN IF content = NoFile
       THEN [threw |-> FALSE, data |-> EmptyData(userId, t), masterKey |-> key]
       ELSE IF io.read = "fail"
       THEN [threw |-> FALSE, data |-> EmptyData(userId, t), masterKey |-> key]
       ELSE IF dec.threw \/ ~IsJSON(dec.value)
       THEN [threw |-> FALSE, data |-> EmptyData(userId, t),
             masterKey |-> dec.masterKey]
       ELSE [threw |-> FALSE, data |-> JSONparse(dec.value),
             masterKey |-> dec.masterKey]

\* loadUserData on the files fs at instant t: the data it returns, whether
\* it threw, and the master key after the call.
loadUserData(userId, encrypted, fs, key, t, io) ==
    LET content == fs[getUserDataPath(userId)]
        dec == IF encrypted THEN decryptData(content, key)
               ELSE [threw |-> FALSE, value |-> content, masterKey |-> key]
    IN IF content = NoFile
       THEN [threw |-> FALSE, data |-> EmptyData(userId, t), masterKey |-> key]
       ELSE IF io.read = "fail"
       THEN [threw |-> FALSE, data |-> ErrorData(userId, t), masterKey |-> key]
       ELSE IF dec.threw \/ ~IsJSON(dec.value)
       THEN [threw |-> FALSE, data |-> ErrorData(userId, t),
             masterKey |-> dec.masterKey]
       ELSE [threw |-> FALSE, data |-> JSONparse(dec.value),
             masterKey |-> dec.masterKey]

\* Mutant: totalRecords is left as it was loaded.
updateMetadata_stale(data, t) ==
    LET metadata == IF Falsy(Prop(data, "metadata")) THEN <<>> ELSE data.metadata
    IN Spread(data, [metadata |->
           Spread([totalRecords |-> 0],
                  Spread(metadata, [lastUpdate |-> toISOString(t)]))])

\* data.metadata = data.metadata || {}, then lastUpdate and totalRecords.
updateMetadata(data, t) ==
    LET metadata == IF Falsy(Prop(data, "metadata")) THEN <<>> ELSE data.metadata
    IN Spread(data, [metadata |->
           Spread(metadata, [lastUpdate |-> toISOString(t),
                             totalRecords |-> Len(data.records)])])

\* Mutant: the failure of the write is not caught.
saveUserData_uncaught(userId, data, encrypted, fs, key, t, iv, io) ==
    LET filePath == getUserDataPath(userId)
        jsonData == JSONstringify(updateMetadata(data, t))
        content == IF encrypted
                   THEN encryptData(jsonData, getMasterKey(key), iv)
                   ELSE jsonData
        key2 == IF encrypted /\ io.encrypt = "ok" THEN getMasterKey(key) ELSE key
    IN IF "records" \notin DOMAIN data
       THEN [files |-> fs, masterKey |-> key, result |-> FALSE, threw |-> FALSE]
       ELSE IF encrypted /\ io.encrypt = "fail"
       THEN [files |-> fs, masterKey |-> key2, result |-> FALSE, threw |-> FALSE]
       ELSE IF io.write = "fail"
       THEN [files |-> fs, masterKey |-> key2, result |-> FALSE, threw |-> TRUE]
       ELSE IF io.write = "partial"
       THEN [files |-> [fs EXCEPT ![filePath] = Truncated], masterKey |-> key2,
             result |-> FALSE, threw |-> TRUE]
       ELSE [files |-> [fs EXCEPT ![filePath] = content], masterKey |-> key2,
             result |-> TRUE, threw |-> FALSE]

\* saveUserData: the files and the master key it leaves, its result, and
\* whether it threw. data.records.length throws when data has no records.
saveUserData(userId, data, encrypted, fs, key, t, iv, io) ==
    LET filePath == getUserDataPath(userId)
        jsonData == JSONstringify(updateMetadata(data, t))
        content == IF encrypted
                   THEN encryptData(jsonData, getMasterKey(key), iv)
                   ELSE jsonData
        key2 == IF encrypted /\ io.encrypt = "ok" THEN getMasterKey(key) ELSE key
    IN IF "records" \notin DOMAIN data
       THEN [files |-> fs, masterKey |-> key, result |-> FALSE, threw |-> FALSE]
       ELSE IF encrypted /\ io.encrypt = "fail"
       THEN [files |-> fs, masterKey |-> key2, result |-> FALSE, threw |-> FALSE]
       ELSE IF io.write = "fail"
       THEN [files |-> fs, masterKey |-> key2, result |-> FALSE, threw |-> FALSE]
       ELSE IF io.write = "partial"
       THEN [files |-> [fs EXCEPT ![filePath] = Truncated], masterKey |-> key2,
             result |-> FALSE, threw |-> FALSE]
       ELSE [files |-> [fs EXCEPT ![filePath] = content], masterKey |-> key2,
             result |-> TRUE, threw |-> FALSE]

\* The comparator of addRecord's sort; a NaN result counts as 0.
compareRecords(a, b) ==
    LET ta == DateParse(Prop(a, "timestamp"))
        tb == DateParse(Prop(b, "timestamp"))
    IN IF ta = NaN \/ tb = NaN THEN 0 ELSE tb - ta

\* Array.prototype.sort with compareRecords: stable.
RECURSIVE InsertRecord(_, _)
InsertRecord(x, sorted) ==
    IF sorted = <<>> THEN <<x>>
    ELSE IF compareRecords(x, Head(sorted)) <= 0 THEN <<x>> \o sorted
    ELSE <<Head(sorted)>> \o InsertRecord(x, Tail(sorted))

RECURSIVE sortLoop(_)
sortLoop(records) ==
    IF records = <<>> THEN <<>>
    ELSE InsertRecord(Head(records), sortLoop(Tail(records)))

\* Mutant: the records stay in insertion order.
sortRecords_none(records) == records

\* data.records.sort(...) of addRecord.
sortRecords(records) == sortLoop(records)

\* The complete record addRecord builds from the caller's partial one.
newRecord(record, t, random) ==
    Spread([id |-> generateRecordId(t, random),
            timestamp |-> toISOString(t),
            date |-> IF Falsy(Prop(record, "date"))
                     THEN getTodayDate(t) ELSE record.date,
            category |-> IF Falsy(Prop(record, "category"))
                         THEN Str(<<"observacao">>) ELSE record.category,
            content |-> Prop(record, "content")],
           record)

\* addRecord: load, push, sort, save; false from its catch block. stepThrew
\* tells whether the steps before the save threw.
addRecord(userId, record, encrypted, fs, key, t, random, iv, io) ==
    LET loaded == loadUserData(userId, encrypted, fs, key, t, io)
        userData == loaded.data
        records == sortRecords(Append(userData.records,
                                      newRecord(record, t, random)))
        saved == saveUserData(userId, [userData EXCEPT !.records = records],
                              encrypted, fs, loaded.masterKey, t, iv, io)
    IN IF loaded.threw \/ "records" \notin DOMAIN userData
       THEN [files |-> fs, masterKey |-> loaded.masterKey, result |-> FALSE,
             threw |-> FALSE, stepThrew |-> TRUE]
       ELSE [files |-> saved.files, masterKey |-> saved.masterKey,
             result |-> ~saved.threw /\ saved.result,
             threw |-> FALSE, stepThrew |-> FALSE]

\* getAllRecords: userData.records of the loaded data, whatever it is, and
\* [] from its catch block, which a loaded null reaches; list tells whether
\* what it returns is an array.
getAllRecords(userId, encrypted, fs, key, t, io) ==
    LET loaded == loadUserData(userId, encrypted, fs, key, t, io)
        caught == loaded.threw \/ loaded.data = null
    IN [records |-> IF caught THEN <<>> ELSE Prop(loaded.data, "records"),
        list |-> caught \/ "records" \in DOMAIN loaded.data,
        masterKey |-> loaded.masterKey]

\* A callback that reads record.date throws on a null element.
HasNull(records) == \E i \in 1..Len(records) : records[i] = null

\* Array.prototype.filter with record => record.date === date.
RECURSIVE filterByDate(_, _)
filterByDate(records, date) ==
    IF records = <<>> THEN <<>>
    ELSE IF Prop(Head(records), "date") = date
    THEN <<Head(records)>> \o filterByDate(Tail(records), date)
    ELSE filterByDate(Tail(records), date)

\* Mutant: the date is not compared.
getRecordsByDate_all(userId, date, encrypted, fs, key, t, io) ==
    LET loaded == loadUserData(userId, encrypted, fs, key, t, io)
    IN [records |-> IF loaded.threw \/ "records" \notin DOMAIN loaded.data
                    THEN <<>> ELSE loaded.data.records,
        masterKey |-> loaded.masterKey]

\* getRecordsByDate: the loaded records of that date, [] in its catch block.
getRecordsByDate(userId, date, encrypted, fs, key, t, io) ==
    LET loaded == loadUserData(userId, encrypted, fs, key, t, io)
    IN [records |-> IF loaded.threw \/ "records" \notin DOMAIN loaded.data
                    THEN <<>>
                    ELSE IF HasNull(loaded.data.records) THEN <<>>
                    ELSE filterByDate(loaded.data.records, date),
        masterKey |-> loaded.masterKey]

\* The code unit of a digit.
CharCode(c) == CHOOSE n \in 0..9 : ToString(n) = c

\* a >= b of two strings of digits: the comparison of their code units.
RECURSIVE StringGE(_, _)
StringGE(a, b) ==
    IF b = <<>> THEN TRUE
    ELSE IF a = <<>> THEN FALSE
    ELSE IF Head(a) = Head(b) THEN StringGE(Tail(a), Tail(b))
    ELSE CharCode(Head(a)) > CharCode(Head(b))

\* v >= limit in JavaScript, limit a string: false for undefined.
GreaterOrEqual(v, limit) ==
    IF "str" \in DOMAIN v THEN StringGE(v.str, limit.str) ELSE FALSE

\* Array.prototype.filter with record => record.date >= limitDateStr.
RECURSIVE filterSince(_, _)
filterSince(records, limit) ==
    IF records = <<>> THEN <<>>
    ELSE IF GreaterOrEqual(Prop(Head(records), "date"), limit)
    THEN <<Head(records)>> \o filterSince(Tail(records), limit)
    ELSE filterSince(Tail(records), limit)

\* limitDate.setDate(limitDate.getDate() - days), formatted.
limitDateStr(t, days) == formatDate(t - days * DayMs)

\* Mutant: the limit date itself is excluded.
getRecentRecords_exclusive(userId, days, encrypted, fs, key, t, io) ==
    LET loaded == loadUserData(userId, encrypted, fs, key, t, io)
    IN [records |-> IF loaded.threw \/ "records" \notin DOMAIN loaded.data
                    THEN <<>>
                    ELSE filterSince(loaded.data.records,
                                     limitDateStr(t, days - 1)),
        masterKey |-> loaded.masterKey]

\* getRecentRecords: the loaded records dated on or after the limit date, []
\* in its catch block.
getRecentRecords(userId, days, encrypted, fs, key, t, io) ==
    LET loaded == loadUserData(userId, encrypted, fs, key, t, io)
    IN [records |-> IF loaded.threw \/ "records" \notin DOMAIN loaded.data
                    THEN <<>>
                    ELSE IF HasNull(loaded.data.records) THEN <<>>
                    ELSE filterSince(loaded.data.records, limitDateStr(t, days)),
        masterKey |-> loaded.masterKey]

\* formatDateBR: the day, month and year of a date string, rearranged.
formatDateBR(dateStr) == [ddmmyyyy |-> dateStr.str]

\* String.prototype.toUpperCase.
toUpperCase(s) == [upper |-> s.str]

\* The keys of recordsByDate: the dates of the records.
DatesOf(records) == {Prop(records[i], "date") : i \in 1..Len(records)}

\* Object.keys(recordsByDate).sort().reverse(): the largest string first.
RECURSIVE sortedDates(_)
sortedDates(dates) ==
    IF dates = {} THEN <<>>
    ELSE LET top == CHOOSE d \in dates : \A e \in dates : StringGE(d.str, e.str)
         IN <<top>> \o sortedDates(dates \ {top})

\* The lines of one record of the report.
ExportEntry(record) ==
    [category |-> toUpperCase(record.category),
     content |-> Prop(record, "content"),
     time |-> Prop(record, "timestamp")]

\* The texts exportUserData returns besides the report.
NoRecordsMessage == [message |-> "Nenhum registro encontrado para exportar."]
ExportError == [message |-> "Erro ao exportar dados. Tente novamente."]

\* The report: its head, then per date its heading and its records.
ExportReport(data, t) ==
    LET dates == sortedDates(DatesOf(data.records))
    IN [userId |-> Prop(data, "userId"),
        total |-> Len(data.records),
        lastUpdate |-> Prop(data.metadata, "lastUpdate"),
        sections |->
            [i \in 1..Len(dates) |->
                LET group == filterByDate(data.records, dates[i])
                IN [heading |-> formatDateBR(dates[i]),
                    entries |-> [j \in 1..Len(group) |-> ExportEntry(group[j])]]],
        exportedAt |-> t]

\* exportUserData: the no-records message, the report, or the error message
\* of its catch block (no records or no metadata in the loaded data, a
\* record without a category).
exportUserData(userId, encrypted, fs, key, t, io) ==
    LET loaded == loadUserData(userId, encrypted, fs, key, t, io)
        data == loaded.data
    IN [text |->
            IF loaded.threw \/ "records" \notin DOMAIN data THEN ExportError
            ELSE IF Len(data.records) = 0 THEN NoRecordsMessage
            ELSE IF Falsy(Prop(data, "metadata")) THEN ExportError
            ELSE IF \E i \in 1..Len(data.records) :
                        "str" \notin DOMAIN Prop(data.records[i], "category")
            THEN ExportError
            ELSE ExportReport(data, t),
        masterKey |-> loaded.masterKey]

\* Mutant: true is returned but the file is not removed.
deleteUserData_keep(userId, fs, io) ==
    LET filePath == getUserDataPath(userId)
    IN IF fs[filePath] = NoFile THEN [files |-> fs, result |-> FALSE]
       ELSE IF io.unlink = "fail" THEN [files |-> fs, result |-> FALSE]
       ELSE [files |-> fs, result |-> TRUE]

\* Mutant: true is returned when there is no file to remove.
deleteUserData_always(userId, fs, io) ==
    LET filePath == getUserDataPath(userId)
    IN IF fs[filePath] = NoFile THEN [files |-> fs, result |-> TRUE]
       ELSE IF io.unlink = "fail" THEN [files |-> fs, result |-> FALSE]
       ELSE [files |-> [fs EXCEPT ![filePath] = NoFile], result |-> TRUE]

\* deleteUserData: unlink when the file exists; false when it does not
\* exist and from the catch block.
deleteUserData(userId, fs, io) ==
    LET filePath == getUserDataPath(userId)
    IN IF fs[filePath] = NoFile THEN [files |-> fs, result |-> FALSE]
       ELSE IF io.unlink = "fail" THEN [files |-> fs, result |-> FALSE]
       ELSE [files |-> [fs EXCEPT ![filePath] = NoFile], result |-> TRUE]

(***************************************************************************)
(* The record of a store call:                                             *)
(*   op       its name                                                     *)
(*   userId   the identifier it was called with                            *)
(*   result   the boolean returned (FALSE in the calls that return none)   *)
(*   error    loadUserData: whether the data returned carries              *)
(*            metadata.error                                               *)
(*   threw    whether the call ended in an exception                       *)
(*   failed   saveUserData, addRecord: what failed inside the call:        *)
(*            "step" the load-append-sort step of addRecord, "save" the    *)
(*            encryption or the write, "none" neither                      *)
(***************************************************************************)
StoreCall(op, userId, result, error, threw, failed) ==
    [op |-> op, userId |-> userId, result |-> result, error |-> error,
     threw |-> threw, failed |-> failed]

\* The identifier of a call that has none.
NoUserId == <<>>

\* Whether the encryption or the write of a save fails.
SaveFails(encrypted, io) ==
    (encrypted /\ io.encrypt = "fail") \/ io.write # "ok"

\* What fails inside an addRecord whose load-append-sort step threw or not.
Failed(stepThrows, saveFails) ==
    IF stepThrows THEN "step" ELSE IF saveFails THEN "save" ELSE "none"

\* The concurrent callers of addRecord.
Tasks == {"a", "b"}

\* The random part of the record id each of them draws.
TaskRandom == [a |-> "ra", b |-> "rb"]

\* A caller that is not inside addRecord. Inside, pc tells whether it has
\* loaded ("loaded") or saved ("done"), userData is what it loaded, added
\* the record it built, result what its addRecord returned, and stale
\* whether another caller saved after it loaded.
IdleTask ==
    [pc |-> "idle", encrypted |-> FALSE, record |-> undefined,
     userData |-> undefined, added |-> undefined, result |-> FALSE,
     stale |-> FALSE]

\* isValidPIN before it is called.
NoPin == [input |-> undefined, result |-> undefined]

\* The processor before its first message.
NoProc ==
    [op |-> "none", config |-> undefined, encrypted |-> FALSE,
     isRecord |-> FALSE, recordSaved |-> FALSE, reply |-> "",
     sentToGemini |-> FALSE, threw |-> FALSE, storeCalls |-> {}]

\* The state of what the sessions and the store do not touch.
\* The period of the setInterval timer of security.js, in clock units.
SweepInterval == 2

\* No call of retryWithBackoff is running. calls counts the calls of fn,
\* waits lists the arguments of sleep, errors what the calls of fn threw.
NoRetry ==
    [pc |-> "idle", maxRetries |-> 0, delayMs |-> 0, i |-> 0,
     lastError |-> undefined, calls |-> 0, waits |-> <<>>, errors |-> <<>>,
     outcome |-> undefined]

OtherStart ==
    pin = NoPin /\ proc = NoProc /\ sweepAt = SweepInterval /\ retry = NoRetry

\* The store before its first call: no file, no key.
StoreStart ==
    /\ files = [p \in Paths |-> NoFile]
    /\ masterKey = null
    /\ tasks = [k \in Tasks |-> IdleTask]
    /\ call = StoreCall("initializeDatabase", NoUserId, TRUE, FALSE, FALSE, "none")

(***************************************************************************)
(* SessionManager                                                          *)
(***************************************************************************)
destroySession(m, userId) == MapDelete(m, userId)

\* One clock unit is far longer than a call: the three Date.now() reads of
\* createSession (token, createdAt, lastActivity) see the same instant.
createSession(m, userId, token, t) ==
    MapSet(m, userId, [userId |-> userId, token |-> token,
                       createdAt |-> t, lastActivity |-> t])

CreateSession(userId, random) ==
    LET token == generateSessionToken(userId, now, random)
        old == MapGet(sessions, userId)
    IN /\ sessions' = createSession(sessions, userId, token, now)
       /\ ret' = Call("createSession", userId, token,
                      IF old = undefined THEN undefined ELSE old.token,
                      FALSE, NotMeasured, {})
       /\ lastOk' = [lastOk EXCEPT ![userId] = [at |-> now]]
       /\ dead' = [dead EXCEPT ![userId] = undefined]
       /\ UNCHANGED <<now, storeVars, otherVars>>

\* Mutant: the session is rejected as soon as the idle time reaches the timeout.
validateSession_strict(m, userId, token, t) ==
    LET session == MapGet(m, userId)
    IN IF session = undefined
       THEN [sessions |-> m, result |-> FALSE, idle |-> NotMeasured]
       ELSE IF session.token # token
       THEN [sessions |-> m, result |-> FALSE, idle |-> NotMeasured]
       ELSE IF t - session.lastActivity >= timeoutMs
       THEN [sessions |-> destroySession(m, userId), result |-> FALSE,
             idle |-> t - session.lastActivity]
       ELSE [sessions |-> MapSet(m, userId, [session EXCEPT !.lastActivity = t]),
             result |-> TRUE, idle |-> t - session.lastActivity]

\* Mutant: an expired session is rejected but stays in the table.
validateSession_keep(m, userId, token, t) ==
    LET session == MapGet(m, userId)
    IN IF session = undefined
       THEN [sessions |-> m, result |-> FALSE, idle |-> NotMeasured]
       ELSE IF session.token # token
       THEN [sessions |-> m, result |-> FALSE, idle |-> NotMeasured]
       ELSE IF t - session.lastActivity > timeoutMs
       THEN [sessions |-> m, result |-> FALSE, idle |-> t - session.lastActivity]
       ELSE [sessions |-> MapSet(m, userId, [session EXCEPT !.lastActivity = t]),
             result |-> TRUE, idle |-> t - session.lastActivity]

\* Mutant: the token is not compared.
validateSession_anyToken(m, userId, token, t) ==
    LET session == MapGet(m, userId)
    IN IF session = undefined
       THEN [sessions |-> m, result |-> FALSE, idle |-> NotMeasured]
       ELSE IF t - session.lastActivity > timeoutMs
       THEN [sessions |-> destroySession(m, userId), result |-> FALSE,
             idle |-> t - session.lastActivity]
       ELSE [sessions |-> MapSet(m, userId, [session EXCEPT !.lastActivity = t]),
             result |-> TRUE, idle |-> t - session.lastActivity]

\* Mutant: the timeout counts from createdAt, not from lastActivity.
validateSession_fromCreation(m, userId, token, t) ==
    LET session == MapGet(m, userId)
    IN IF session = undefined
       THEN [sessions |-> m, result |-> FALSE, idle |-> NotMeasured]
       ELSE IF session.token # token
       THEN [sessions |-> m, result |-> FALSE, idle |-> NotMeasured]
       ELSE IF t - session.createdAt > timeoutMs
       THEN [sessions |-> destroySession(m, userId), result |-> FALSE,
             idle |-> t - session.lastActivity]
       ELSE [sessions |-> MapSet(m, userId, [session EXCEPT !.lastActivity = t]),
             result |-> TRUE, idle |-> t - session.lastActivity]

\* Mutant: the idle time is checked before the token, so a call with a
\* wrong token removes an expired session.
validateSession_expiryFirst(m, userId, token, t) ==
    LET session == MapGet(m, userId)
    IN IF session = undefined
       THEN [sessions |-> m, result |-> FALSE, idle |-> NotMeasured]
       ELSE IF t - session.lastActivity > timeoutMs
       THEN [sessions |-> destroySession(m, userId), result |-> FALSE,
             idle |-> t - session.lastActivity]
       ELSE IF session.token # token
       THEN [sessions |-> m, result |-> FALSE, idle |-> NotMeasured]
       ELSE [sessions |-> MapSet(m, userId, [session EXCEPT !.lastActivity = t]),
             result |-> TRUE, idle |-> t - session.lastActivity]

\* The outcome of validateSession on table m at instant t: the table it
\* leaves and the value it returns.
validateSession(m, userId, token, t) ==
    LET session == MapGet(m, userId)
    IN IF session = undefined
       THEN [sessions |-> m, result |-> FALSE, idle |-> NotMeasured]
       ELSE IF session.token # token
       THEN [sessions |-> m, result |-> FALSE, idle |-> NotMeasured]
       ELSE IF t - session.lastActivity > timeoutMs
       THEN [sessions |-> destroySession(m, userId), result |-> FALSE,
             idle |-> t - session.lastActivity]
       ELSE [sessions |-> MapSet(m, userId, [session EXCEPT !.lastActivity = t]),
             result |-> TRUE, idle |-> t - session.lastActivity]

ValidateSession(userId, token) ==
    LET out == validateSession(sessions, userId, token, now)
        expired == MapHas(sessions, userId) /\ ~MapHas(out.sessions, userId)
    IN /\ sessions' = out.sessions
       /\ ret' = Call("validateSession", userId, token, undefined,
                      out.result, out.idle,
                      MapKeys(sessions) \ MapKeys(out.sessions))
       /\ lastOk' = [lastOk EXCEPT ![userId] =
                        IF out.result THEN [at |-> now]
                        ELSE IF expired THEN undefined ELSE @]
       /\ dead' = [dead EXCEPT ![userId] = IF expired THEN token ELSE @]
       /\ UNCHANGED <<now, storeVars, otherVars>>

\* Mutant: a session idle for longer than the timeout is not refreshed.
updateActivity_checked(m, userId, t) ==
    LET session == MapGet(m, userId)
    IN IF session # undefined /\ t - session.lastActivity <= timeoutMs
       THEN MapSet(m, userId, [session EXCEPT !.lastActivity = t])
       ELSE m

updateActivity(m, userId, t) ==
    LET session == MapGet(m, userId)
    IN IF session # undefined
       THEN MapSet(m, userId, [session EXCEPT !.lastActivity = t])
       ELSE m

\* updateActivity returns nothing and measures nothing; idle notes how long
\* the session had been idle when the call arrived.
UpdateActivity(userId) ==
    /\ sessions' = updateActivity(sessions, userId, now)
    /\ ret' = Call("updateActivity", userId, undefined, undefined, FALSE,
                    IF MapHas(sessions, userId)
                    THEN now - MapGet(sessions, userId).lastActivity
                    ELSE NotMeasured, {})
    /\ UNCHANGED <<now, lastOk, dead, storeVars, otherVars>>

DestroySession(userId) ==
    /\ sessions' = destroySession(sessions, userId)
    /\ ret' = Call("destroySession", userId, undefined, undefined, FALSE,
                    NotMeasured,
                    MapKeys(sessions) \ MapKeys(sessions'))
    /\ lastOk' = Forget(lastOk, {userId})
    /\ UNCHANGED <<now, dead, storeVars, otherVars>>

\* The for-of loop of cleanupExpiredSessions over the entries still to visit.
RECURSIVE cleanupLoop(_, _, _)
cleanupLoop(m, keys, t) ==
    IF keys = {} THEN m
    ELSE LET userId == CHOOSE k \in keys : TRUE
             session == MapGet(m, userId)
             m2 == IF t - session.lastActivity > timeoutMs
                   THEN destroySession(m, userId)
                   ELSE m
         IN cleanupLoop(m2, keys \ {userId}, t)

\* Mutant: the sweep also removes the sessions idle for exactly the timeout.
cleanupExpiredSessions_ge(m, t) ==
    {e \in m : t - e.value.lastActivity < timeoutMs}

\* Mutant: the sweep removes nothing.
cleanupExpiredSessions_none(m, t) == m

cleanupExpiredSessions(m, t) == cleanupLoop(m, MapKeys(m), t)

CleanupExpiredSessions ==
    /\ sessions' = cleanupExpiredSessions(sessions, now)
    /\ ret' = Call("cleanupExpiredSessions", NoUser, undefined, undefined,
                    FALSE, NotMeasured, MapKeys(sessions) \ MapKeys(sessions'))
    /\ lastOk' = Forget(lastOk, MapKeys(sessions) \ MapKeys(sessions'))
    /\ UNCHANGED <<now, dead, storeVars, otherVars>>

\* Time passes between calls.
Tick ==
    /\ now < MaxClock
    /\ now' = now + 1
    /\ UNCHANGED <<sessionVars, storeVars, otherVars>>

\* The tokens validateSession is tried with: the one stored for the user,
\* the one the latest createSession overwrote, the one rejected for expiry,
\* and one that was never issued.
TokenInputs(userId) ==
    {e.value.token : e \in {x \in sessions : x.key = userId}}
        \cup ({dead[userId]} \ {undefined})
        \cup (IF ret.op = "createSession" /\ ret.userId = userId
              THEN {ret.old} \ {undefined} ELSE {})
        \cup {WrongToken}

SessionInit ==
    /\ now = 0
    /\ StoreStart
    /\ OtherStart
    /\ sessions = {}
    /\ ret = Call("constructor", NoUser, undefined, undefined, FALSE,
                NotMeasured, {})
    /\ lastOk = [u \in SessionUsers |-> undefined]
    /\ dead = [u \in SessionUsers |-> undefined]

SessionNext ==
    \/ \E u \in SessionUsers, r \in Randoms : CreateSession(u, r)
    \/ \E u \in SessionUsers : \E t \in TokenInputs(u) : ValidateSession(u, t)
    \/ \E u \in SessionUsers : UpdateActivity(u)
    \/ \E u \in SessionUsers : DestroySession(u)
    \/ CleanupExpiredSessions
    \/ Tick

SessionSpec == SessionInit /\ [][SessionNext]_vars


(***************************************************************************)
(* The record store as a state machine.                                    *)
(***************************************************************************)
\* The records all files hold together are at most MaxRecords.
MaxRecords == 2

\* The document a file holds, whichever way it was written; undefined when
\* the file is missing or holds no document.
Persisted(content) ==
    IF IsJSON(content) THEN JSONparse(content)
    ELSE IF IsBlob(content) /\ Authentic(content, content.encrypted.aes[1])
              /\ IsJSON(content.encrypted.aes[3])
    THEN JSONparse(content.encrypted.aes[3])
    ELSE undefined

PersistedRecords(content) ==
    IF Persisted(content) = undefined THEN <<>> ELSE Persisted(content).records

RECURSIVE RecordCount(_, _)
RecordCount(fs, paths) ==
    IF paths = {} THEN 0
    ELSE LET p == CHOOSE x \in paths : TRUE
         IN Len(PersistedRecords(fs[p])) + RecordCount(fs, paths \ {p})

\* The partial records addRecord is called with: content only; a date, a
\* category key whose value is undefined, and content.
PartialRecords ==
    {[content |-> Str(<<"c">>)],
     [date |-> Str(<<"0", "0">>), category |-> undefined,
      content |-> Str(<<"c">>)]}

\* The data saveUserData is called with directly: two records, the older
\* first, and no metadata; no record and a metadata that counts two.
DataInputs(userId) ==
    {[userId |-> Str(sanitizePhoneNumber(userId)),
      records |-> <<newRecord([content |-> Str(<<"a">>)], 0, "r1"),
                    newRecord([content |-> Str(<<"b">>)], 1, "r1")>>],
     [userId |-> Str(sanitizePhoneNumber(userId)),
      records |-> <<>>,
      metadata |-> [createdAt |-> toISOString(0), lastUpdate |-> toISOString(0),
                    totalRecords |-> 2]]}

LoadUserData(userId, encrypted, io) ==
    \E res \in {loadUserData(userId, encrypted, files, masterKey, now, io)} :
       /\ masterKey' = res.masterKey
       /\ call' = StoreCall("loadUserData", userId, FALSE,
                            ~res.threw /\ "error" \in DOMAIN Prop(res.data, "metadata"),
                            res.threw, "none")
       /\ UNCHANGED <<now, files, sessionVars, otherVars, tasks>>

SaveUserData(userId, data, encrypted, iv, io) ==
    /\ RecordCount([files EXCEPT ![getUserDataPath(userId)] = NoFile], Paths)
           + (IF "records" \in DOMAIN data THEN Len(data.records) ELSE 0)
               <= MaxRecords
    /\ \E res \in {saveUserData(userId, data, encrypted, files, masterKey,
                                 now, iv, io)} :
          /\ files' = res.files
          /\ masterKey' = res.masterKey
          /\ call' = StoreCall("saveUserData", userId, res.result, FALSE, res.threw,
                               Failed(FALSE, SaveFails(encrypted, io)))
          /\ UNCHANGED <<now, sessionVars, otherVars, tasks>>

AddRecord(userId, record, encrypted, random, iv, io) ==
    /\ RecordCount(files, Paths) < MaxRecords
    /\ \E res \in {addRecord(userId, record, encrypted, files, masterKey, now,
                              random, iv, io)} :
          /\ files' = res.files
          /\ masterKey' = res.masterKey
          /\ call' = StoreCall("addRecord", userId, res.result, FALSE, res.threw,
                               Failed(res.stepThrew,
                                      SaveFails(encrypted, io)))
          /\ UNCHANGED <<now, sessionVars, otherVars, tasks>>

GetAllRecords(userId, encrypted, io) ==
    \E res \in {getAllRecords(userId, encrypted, files, masterKey, now, io)} :
       /\ masterKey' = res.masterKey
       /\ call' = StoreCall("getAllRecords", userId, FALSE, FALSE, FALSE, "none")
       /\ UNCHANGED <<now, files, sessionVars, otherVars, tasks>>

\* The dates getRecordsByDate is asked for: the days of the clock.
DateInputs == {formatDate(t) : t \in 0..MaxClock}

\* The day of instant t.
Today(t) == t \div DayMs

GetRecordsByDate(userId, date, encrypted, io) ==
    \E res \in {getRecordsByDate(userId, date, encrypted, files, masterKey, now,
                                 io)} :
       /\ masterKey' = res.masterKey
       /\ call' = StoreCall("getRecordsByDate", userId, FALSE, FALSE, FALSE, "none")
       /\ UNCHANGED <<now, files, sessionVars, otherVars, tasks>>

\* days reaches back to the first day of the clock at most.
GetRecentRecords(userId, days, encrypted, io) ==
    /\ days \in 0..Today(now)
    /\ \E res \in {getRecentRecords(userId, days, encrypted, files, masterKey,
                                    now, io)} :
          /\ masterKey' = res.masterKey
          /\ call' = StoreCall("getRecentRecords", userId, FALSE, FALSE, FALSE, "none")
          /\ UNCHANGED <<now, files, sessionVars, otherVars, tasks>>

DeleteUserData(userId, io) ==
    \E res \in {deleteUserData(userId, files, io)} :
       /\ files' = res.files
       /\ call' = StoreCall("deleteUserData", userId, res.result, FALSE, FALSE, "none")
       /\ UNCHANGED <<now, masterKey, sessionVars, otherVars, tasks>>

\* The faults a call can meet: those of the steps it has.
ReadFaults == {io \in Faults : io.encrypt = "ok" /\ io.write = "ok" /\ io.unlink = "ok"}

WriteFaults == {io \in Faults : io.unlink = "ok"}

UnlinkFaults == {io \in Faults : io.read = "ok" /\ io.encrypt = "ok" /\ io.write = "ok"}

StoreInit ==
    /\ now = 0
    /\ sessions = {}
    /\ ret = Call("constructor", NoUser, undefined, undefined, FALSE,
                  NotMeasured, {})
    /\ lastOk = [u \in SessionUsers |-> undefined]
    /\ dead = [u \in SessionUsers |-> undefined]
    /\ StoreStart
    /\ OtherStart

StoreNext ==
    \/ \E u \in UserIds, e \in BOOLEAN, io \in ReadFaults : LoadUserData(u, e, io)
    \/ \E u \in UserIds, e \in BOOLEAN, iv \in StoreRandoms, io \in WriteFaults :
           \E d \in DataInputs(u) : SaveUserData(u, d, e, iv, io)
    \/ \E u \in UserIds, p \in PartialRecords, e \in BOOLEAN, r \in StoreRandoms,
          iv \in StoreRandoms, io \in WriteFaults : AddRecord(u, p, e, r, iv, io)
    \/ \E u \in UserIds, e \in BOOLEAN, io \in ReadFaults : GetAllRecords(u, e, io)
    \/ \E u \in UserIds, d \in DateInputs, e \in BOOLEAN, io \in ReadFaults :
           GetRecordsByDate(u, d, e, io)
    \/ \E u \in UserIds, days \in 0..Today(MaxClock), e \in BOOLEAN,
          io \in ReadFaults : GetRecentRecords(u, days, e, io)
    \/ \E u \in UserIds, io \in UnlinkFaults : DeleteUserData(u, io)
    \/ Tick

StoreSpec == StoreInit /\ [][StoreNext]_vars

(***************************************************************************)
(* Two callers inside addRecord for the same user at once, as two          *)
(* processes on one data directory are: each call is its load and then     *)
(* its push, sort and save, and the steps of the two interleave.           *)
(***************************************************************************)
\* const userData = loadUserData(userId, encrypted).
AddLoad(k, userId, record, encrypted) ==
    /\ tasks[k].pc = "idle"
    /\ RecordCount(files, Paths) < MaxRecords
    /\ \E res \in {loadUserData(userId, encrypted, files, masterKey, now,
                                 NoFault)} :
          /\ tasks' = [tasks EXCEPT ![k] =
                          [IdleTask EXCEPT !.pc = "loaded",
                                           !.encrypted = encrypted,
                                           !.record = record,
                                           !.userData = res.data]]
          /\ masterKey' = res.masterKey
    /\ UNCHANGED <<now, files, call, sessionVars, otherVars>>

\* Mutant: the save step adds the record to what the file holds now.
AddSave_reload(k, userId, iv) ==
    /\ tasks[k].pc = "loaded"
    /\ \E res \in {addRecord(userId, tasks[k].record, tasks[k].encrypted,
                              files, masterKey, now, TaskRandom[k], iv,
                              NoFault)} :
          /\ files' = res.files
          /\ masterKey' = res.masterKey
          /\ call' = StoreCall("addRecord", userId, res.result, FALSE, FALSE,
                               "none")
          /\ tasks' = [j \in Tasks |->
                          IF j = k
                          THEN [tasks[k] EXCEPT
                                   !.pc = "done",
                                   !.added = newRecord(tasks[k].record, now,
                                                       TaskRandom[k]),
                                   !.result = res.result]
                          ELSE IF tasks[j].pc = "loaded"
                          THEN [tasks[j] EXCEPT !.stale = TRUE]
                          ELSE tasks[j]]
    /\ UNCHANGED <<now, sessionVars, otherVars>>

\* The rest of addRecord: build the record, push, sort, saveUserData. The
\* callers that have loaded and not yet saved hold stale data from now on.
AddSave(k, userId, iv) ==
    /\ tasks[k].pc = "loaded"
    /\ LET added == newRecord(tasks[k].record, now, TaskRandom[k])
           userData == tasks[k].userData
           records == sortRecords(Append(userData.records, added))
       IN \E res \in {saveUserData(userId,
                                    [userData EXCEPT !.records = records],
                                    tasks[k].encrypted, files, masterKey, now,
                                    iv, NoFault)} :
             /\ files' = res.files
             /\ masterKey' = res.masterKey
             /\ call' = StoreCall("addRecord", userId, res.result, FALSE,
                                  FALSE, "none")
             /\ tasks' = [j \in Tasks |->
                             IF j = k
                             THEN [tasks[k] EXCEPT !.pc = "done",
                                                   !.added = added,
                                                   !.result = res.result]
                             ELSE IF tasks[j].pc = "loaded"
                             THEN [tasks[j] EXCEPT !.stale = TRUE]
                             ELSE tasks[j]]
    /\ UNCHANGED <<now, sessionVars, otherVars>>

\* A complete addRecord before the two callers start.
AddBefore(userId, record, encrypted, random, iv) ==
    /\ \A k \in Tasks : tasks[k].pc = "idle"
    /\ AddRecord(userId, record, encrypted, random, iv, NoFault)

RaceNext ==
    \/ \E u \in UserIds, p \in PartialRecords, e \in BOOLEAN,
          r \in StoreRandoms, iv \in StoreRandoms : AddBefore(u, p, e, r, iv)
    \/ \E k \in Tasks, u \in UserIds, p \in PartialRecords, e \in BOOLEAN :
           AddLoad(k, u, p, e)
    \/ \E k \in Tasks, u \in UserIds, iv \in StoreRandoms : AddSave(k, u, iv)
    \/ Tick

RaceSpec == StoreInit /\ [][RaceNext]_vars

(***************************************************************************)
(* The writing calls of the record store for several identifiers, in every *)
(* order.                                                                  *)
(***************************************************************************)
\* The faults of these calls: none, or a write that is cut short.
IsolationFaults == {NoFault, [NoFault EXCEPT !.write = "partial"]}

\* The partial record of these calls.
IsolationRecords == {[content |-> Str(<<"c">>)]}

IsolationNext ==
    \/ \E u \in IsolationIds, e \in BOOLEAN, iv \in StoreRandoms,
          io \in IsolationFaults :
           \E d \in DataInputs(u) : SaveUserData(u, d, e, iv, io)
    \/ \E u \in IsolationIds, p \in IsolationRecords, e \in BOOLEAN,
          r \in StoreRandoms, iv \in StoreRandoms, io \in IsolationFaults :
           AddRecord(u, p, e, r, iv, io)
    \/ \E u \in IsolationIds : DeleteUserData(u, NoFault)
    \/ Tick

IsolationSpec == StoreInit /\ [][IsolationNext]_vars

(***************************************************************************)
(* The stored blob under corruption: encrypted saves, a single bit of a    *)
(* stored blob flipped, and loads.                                         *)
(***************************************************************************)
\* What a flipped bit makes of an iv and of a plaintext bit under the
\* cipher's stream.
FlippedIv == "flipped"
Flipped == [flipped |-> TRUE]

\* A text that Buffer.from(..., 'base64') and JSON.parse make no blob of.
Garbled == [garbled |-> TRUE]

\* Where the flipped bit of the blob lies: in the iv, the tag or the
\* ciphertext as base64 decodes them, in the JSON around them, or in the
\* bits of the last base64 character before the padding that
\* Buffer.from(ciphertext, 'base64') does not read.
BitPlaces == {"iv", "authTag", "encrypted", "json", "spare"}

\* The blob with one bit flipped, as decryptData decodes it.
flipBit(blob, place) ==
    CASE place = "iv" -> [blob EXCEPT !.iv = FlippedIv]
      [] place = "authTag" ->
           [blob EXCEPT !.authTag =
               [gmac |-> <<blob.authTag.gmac[1], blob.authTag.gmac[2], Flipped>>]]
      [] place = "encrypted" ->
           [blob EXCEPT !.encrypted =
               [aes |-> <<blob.encrypted.aes[1], blob.encrypted.aes[2], Flipped>>]]
      [] place = "json" -> Garbled
      [] OTHER -> Spread(blob, [spare |-> Flipped])

\* A blob as encryptData returns it.
Genuine(content) ==
    /\ DOMAIN content = {"iv", "authTag", "encrypted"}
    /\ content = encryptData(content.encrypted.aes[3], content.encrypted.aes[1],
                             content.iv)

\* One bit of the stored blob flips.
FlipBit(path, place) ==
    /\ IsBlob(files[path])
    /\ Genuine(files[path])
    /\ files' = [files EXCEPT ![path] = flipBit(files[path], place)]
    /\ UNCHANGED <<now, masterKey, call, sessionVars, otherVars, tasks>>

CipherNext ==
    \/ \E u \in UserIds, iv \in StoreRandoms :
           \E d \in DataInputs(u) : SaveUserData(u, d, TRUE, iv, NoFault)
    \/ \E u \in UserIds, p \in PartialRecords, r \in StoreRandoms,
          iv \in StoreRandoms : AddRecord(u, p, TRUE, r, iv, NoFault)
    \/ \E p \in Paths, place \in BitPlaces : FlipBit(p, place)
    \/ \E u \in UserIds : LoadUserData(u, TRUE, NoFault)
    \/ Tick

CipherSpec == StoreInit /\ [][CipherNext]_vars

(***************************************************************************)
(* isValidPIN: /^\d{4,6}$/.test(pin).                                      *)
(***************************************************************************)
\* The longest argument tried.
MaxPinLen == 7

\* The characters of the arguments: a digit, a letter, a line feed, and a
\* digit of another script (ARABIC-INDIC DIGIT THREE).
PinChars == {"7", "a", "\n", "U+0663"}

\* The strings of these characters with n characters.
RECURSIVE PinStrings(_)
PinStrings(n) ==
    IF n = 0 THEN {<<>>}
    ELSE {Append(p, c) : p \in PinStrings(n - 1), c \in PinChars}

PinInputs == UNION {PinStrings(n) : n \in 0..MaxPinLen}

\* How many \d the pattern can take from the start of chars.
RECURSIVE LeadingDigits(_)
LeadingDigits(chars) ==
    IF chars = <<>> \/ ~IsDigit(Head(chars)) THEN 0
    ELSE 1 + LeadingDigits(Tail(chars))

\* Mutant: the pattern without its $.
isValidPIN_unanchored(chars) == LeadingDigits(chars) >= 4

\* ^ at the start, n of \d with n from 4 to 6, $ at the end of the input.
isValidPIN(chars) ==
    \E n \in 4..6 : n <= LeadingDigits(chars) /\ n = Len(chars)

IsValidPIN ==
    /\ pin.result = undefined
    /\ pin' = [pin EXCEPT !.result = [bool |-> isValidPIN(pin.input.str)]]
    /\ UNCHANGED <<now, sessionVars, storeVars, proc, sweepAt, retry>>

PinInit ==
    /\ now = 0
    /\ sessions = {}
    /\ ret = Call("constructor", NoUser, undefined, undefined, FALSE,
                  NotMeasured, {})
    /\ lastOk = [u \in SessionUsers |-> undefined]
    /\ dead = [u \in SessionUsers |-> undefined]
    /\ StoreStart
    /\ proc = NoProc
    /\ sweepAt = SweepInterval
    /\ retry = NoRetry
    /\ \E chars \in PinInputs : pin = [input |-> Str(chars), result |-> undefined]

PinNext == IsValidPIN

PinSpec == PinInit /\ [][PinNext]_vars

(***************************************************************************)
(* The message processor (src/src/processor.js) on top of the record       *)
(* store, under a configuration that validateConfig has accepted.          *)
(***************************************************************************)
\* A boolean of the configuration file.
Bool(b) == [bool |-> b]

\* The configurations loadConfig reads: no security section; encryption
\* switched off; the security section of the readme's PIN example, which
\* does not mention encryption; no API key.
ConfigInputs ==
    {[gemini |-> [apiKey |-> Str(<<"k">>)]],
     [gemini |-> [apiKey |-> Str(<<"k">>)],
      security |-> [enableEncryption |-> Bool(FALSE)]],
     [gemini |-> [apiKey |-> Str(<<"k">>)],
      security |-> [enablePIN |-> Bool(TRUE), pinHash |-> Str(<<>>)]],
     [security |-> [enableEncryption |-> Bool(TRUE)]]}

\* validateConfig: whether the configuration is accepted, and the
\* configuration with the sections it fills in.
validateConfig(config) ==
    IF Falsy(Prop(config, "gemini")) \/ Falsy(Prop(config.gemini, "apiKey"))
    THEN [result |-> FALSE, config |-> config]
    ELSE IF config.gemini.apiKey = Str(<<"SUA_API_KEY_AQUI">>)
    THEN [result |-> FALSE, config |-> config]
    ELSE [result |-> TRUE,
          config |->
              IF Falsy(Prop(config, "security"))
              THEN Spread(config,
                          [security |-> [enableEncryption |-> Bool(TRUE),
                                         enablePIN |-> Bool(FALSE),
                                         sessionTimeout |-> 1800000]])
              ELSE config]

\* What loadConfig hands to the bot.
AcceptedConfigs ==
    {validateConfig(c).config : c \in {x \in ConfigInputs : validateConfig(x).result}}

\* config.security?.enableEncryption || false, as the store's if (encrypted)
\* takes it.
enableEncryption(config) ==
    LET security == Prop(config, "security")
        flag == IF security = undefined \/ security = null THEN undefined
                ELSE Prop(security, "enableEncryption")
    IN ~(Falsy(flag) \/ flag = Bool(FALSE))

\* What classifyMessage returns, parsed from the model's answer: a
\* question; a record; a record without content; a record without a
\* category key; an answer without a content key.
Classifications ==
    {[category |-> Str(<<"pergunta">>), content |-> Str(<<"c">>),
      date |-> Str(<<"today">>)],
     [category |-> Str(<<"sintomas">>), content |-> Str(<<"c">>),
      date |-> Str(<<"yesterday">>)],
     [category |-> Str(<<"sintomas">>), content |-> Str(<<>>),
      date |-> Str(<<"today">>)],
     [content |-> Str(<<"c">>), date |-> Str(<<"today">>)],
     [category |-> Str(<<"sintomas">>), date |-> Str(<<"today">>)]}

\* parseDateFromMessage of utils.js for 'today' and 'yesterday'.
parseDateFromMessage(dateExpression, t) ==
    IF dateExpression = Str(<<"yesterday">>) THEN formatDate(t - DayMs)
    ELSE formatDate(t)

\* The replies of processNaturalMessage.
CouldNotSave == "Desculpe, nao consegui salvar seu registro. Tente novamente."
Problem == "Desculpe, tive um problema ao processar sua mensagem."
AiResponse == "aiResponse"

\* What a call of the processor returns and leaves behind.
ProcCall(op, config, encrypted, isRecord, recordSaved, reply, sentToGemini, threw, storeCalls, fs, key) ==
    [proc |-> [op |-> op, config |-> config, encrypted |-> encrypted,
               isRecord |-> isRecord, recordSaved |-> recordSaved,
               reply |-> reply, sentToGemini |-> sentToGemini,
               threw |-> threw, storeCalls |-> storeCalls],
     files |-> fs, masterKey |-> key]

\* A call of the record store: the function and the encrypted argument it
\* was given (undefined when it was given none).
Issued(op, encrypted) == [op |-> op, encrypted |-> encrypted]

\* Mutant: the result of addRecord is not looked at.
processNaturalMessage_unchecked(userId, message, config, classification, fs, key, t, random, iv, io) ==
    LET encrypted == enableEncryption(config)
        added == addRecord(userId,
                           [date |-> parseDateFromMessage(classification.date, t),
                            category |-> Prop(classification, "category"),
                            content |-> Prop(classification, "content"),
                            originalMessage |-> message],
                           encrypted, fs, key, t, random, iv, io)
        recent == getRecentRecords(userId, Today(t), encrypted, added.files,
                                   added.masterKey, t, NoFault)
    IN ProcCall("processNaturalMessage", config, encrypted, TRUE,
                added.result, AiResponse, TRUE, FALSE,
                {Issued("addRecord", Bool(encrypted)),
                 Issued("getRecentRecords", Bool(encrypted))},
                added.files, recent.masterKey)

\* processNaturalMessage: classification is what classifyMessage returned.
\* The recent records reach back over the whole clock of the model.
processNaturalMessage(userId, message, config, classification, fs, key, t, random, iv, io) ==
    LET encrypted == enableEncryption(config)
        question == Prop(classification, "category") = Str(<<"pergunta">>)
        throws == ~question /\ "content" \notin DOMAIN classification
        isRecord == ~question /\ ~throws /\ Len(classification.content.str) > 0
        added == addRecord(userId,
                           [date |-> parseDateFromMessage(classification.date, t),
                            category |-> Prop(classification, "category"),
                            content |-> classification.content,
                            originalMessage |-> message],
                           encrypted, fs, key, t, random, iv, io)
        fs1 == IF isRecord THEN added.files ELSE fs
        key1 == IF isRecord THEN added.masterKey ELSE key
        recent == getRecentRecords(userId, Today(t), encrypted, fs1, key1, t,
                                   NoFault)
    IN IF throws
       THEN ProcCall("processNaturalMessage", config, encrypted, FALSE, FALSE,
                     Problem, FALSE, FALSE, {}, fs, key)
       ELSE IF isRecord /\ ~added.result
       THEN ProcCall("processNaturalMessage", config, encrypted, TRUE, FALSE,
                     CouldNotSave, FALSE, FALSE,
                     {Issued("addRecord", Bool(encrypted))}, fs1, key1)
       ELSE ProcCall("processNaturalMessage", config, encrypted, isRecord,
                     isRecord, AiResponse, TRUE, FALSE,
                     (IF isRecord THEN {Issued("addRecord", Bool(encrypted))}
                      ELSE {})
                         \cup {Issued("getRecentRecords", Bool(encrypted))},
                     fs1, recent.masterKey)

\* The message of the user.
Messages == {Str(<<"m">>)}

\* The faults a message of the user meets in the store.
ProcFaults == {NoFault, [NoFault EXCEPT !.write = "fail"]}

\* record.category.toUpperCase() throws for a record without a category.
HasCategory(record) == "str" \in DOMAIN Prop(record, "category")

\* The replies of the command handlers, by what they show.
Listing(title, records) == [title |-> title, records |-> records]

\* A handler that lists records with their category in capitals.
ListRecords(title, records) ==
    IF \A i \in 1..Len(records) : HasCategory(records[i])
    THEN [reply |-> Listing(title, records), threw |-> FALSE]
    ELSE [reply |-> Listing(title, <<>>), threw |-> TRUE]

\* The commands: those of the switch, /relatorio with a date, and one the
\* switch does not know.
Commands ==
    {[parts |-> <<Str(<<c>>)>>] :
         c \in {"/hoje", "/ontem", "/relatorio", "/resumo", "/insights",
                "/ajuda", "/exportar", "/limpar", "/outro"}}
        \cup {[parts |-> <<Str(<<"/relatorio">>), Str(<<"0", "0">>)>>]}

\* processCommand: the switch over parts[0] and the handler it calls. The
\* argument of /relatorio is a date as the store writes it; /resumo and
\* /insights reach back over the whole clock of the model.
processCommand(userId, message, config, fs, key, t, io) ==
    LET encrypted == enableEncryption(config)
        command == message.parts[1].str[1]
        args == Tail(message.parts)
        date == IF command = "/hoje" THEN getTodayDate(t)
                ELSE IF command = "/ontem" THEN formatDate(t - DayMs)
                ELSE args[1]
        byDate == getRecordsByDate(userId, date, encrypted, fs, key, t, io)
        recent == getRecentRecords(userId, Today(t), encrypted, fs, key, t, io)
        exported == exportUserData(userId, encrypted, fs, key, t, io)
        deleted == deleteUserData(userId, fs, io)
    IN IF command \in {"/hoje", "/ontem"} \/ (command = "/relatorio" /\ args # <<>>)
       THEN LET shown == ListRecords(command, byDate.records)
            IN ProcCall("processCommand", config, encrypted, FALSE, FALSE,
                        shown.reply, FALSE, shown.threw,
                        {Issued("getRecordsByDate", Bool(encrypted))},
                        fs, byDate.masterKey)
       ELSE IF command = "/relatorio"
       THEN ProcCall("processCommand", config, encrypted, FALSE, FALSE,
                     Listing("uso", <<>>), FALSE, FALSE, {}, fs, key)
       ELSE IF command = "/resumo"
       THEN ProcCall("processCommand", config, encrypted, FALSE, FALSE,
                     Listing(command, recent.records), FALSE, FALSE,
                     {Issued("getRecentRecords", Bool(encrypted))},
                     fs, recent.masterKey)
       ELSE IF command = "/insights"
       THEN ProcCall("processCommand", config, encrypted, FALSE, FALSE,
                     Listing(command, <<>>), Len(recent.records) >= 5, FALSE,
                     {Issued("getRecentRecords", Bool(encrypted))},
                     fs, recent.masterKey)
       ELSE IF command = "/exportar"
       THEN ProcCall("processCommand", config, encrypted, FALSE, FALSE,
                     exported.text, FALSE, FALSE,
                     {Issued("exportUserData", Bool(encrypted))},
                     fs, exported.masterKey)
       ELSE IF command = "/limpar"
       THEN ProcCall("processCommand", config, encrypted, FALSE, FALSE,
                     Listing(IF deleted.result THEN "apagados" ELSE "nada", <<>>),
                     FALSE, FALSE, {Issued("deleteUserData", undefined)},
                     deleted.files, key)
       ELSE ProcCall("processCommand", config, encrypted, FALSE, FALSE,
                     Listing(IF command = "/ajuda" THEN command ELSE "?", <<>>),
                     FALSE, FALSE, {}, fs, key)

ProcessCommand(userId, message, config, io) ==
    /\ message.parts[1] = Str(<<"/ontem">>) => now >= DayMs
    /\ \E res \in {processCommand(userId, message, config, files, masterKey,
                                   now, io)} :
          /\ proc' = res.proc
          /\ files' = res.files
          /\ masterKey' = res.masterKey
    /\ UNCHANGED <<now, call, tasks, sessionVars, pin, sweepAt, retry>>

ProcessNaturalMessage(userId, message, config, classification, random, iv, io) ==
    /\ RecordCount(files, Paths) < MaxRecords
    /\ classification.date = Str(<<"yesterday">>) => now >= DayMs
    /\ \E res \in {processNaturalMessage(userId, message, config,
                                          classification, files, masterKey,
                                          now, random, iv, io)} :
          /\ proc' = res.proc
          /\ files' = res.files
          /\ masterKey' = res.masterKey
    /\ UNCHANGED <<now, call, tasks, sessionVars, pin, sweepAt, retry>>

ProcInit ==
    /\ now = 0
    /\ sessions = {}
    /\ ret = Call("constructor", NoUser, undefined, undefined, FALSE,
                  NotMeasured, {})
    /\ lastOk = [u \in SessionUsers |-> undefined]
    /\ dead = [u \in SessionUsers |-> undefined]
    /\ StoreStart
    /\ OtherStart

ProcNext ==
    \/ \E u \in UserIds, m \in Messages, c \in AcceptedConfigs,
          k \in Classifications, r \in StoreRandoms, iv \in StoreRandoms,
          io \in ProcFaults : ProcessNaturalMessage(u, m, c, k, r, iv, io)
    \/ Tick

ProcSpec == ProcInit /\ [][ProcNext]_vars

\* Natural messages and commands, in every order.
CommandNext ==
    \/ \E u \in UserIds, m \in Messages, c \in AcceptedConfigs,
          k \in Classifications, r \in StoreRandoms, iv \in StoreRandoms :
           ProcessNaturalMessage(u, m, c, k, r, iv, NoFault)
    \/ \E u \in UserIds, m \in Commands, c \in AcceptedConfigs :
           ProcessCommand(u, m, c, NoFault)
    \/ Tick

CommandSpec == ProcInit /\ [][CommandNext]_vars

(***************************************************************************)
(* The reading calls of the record store on a file of any content.         *)
(***************************************************************************)
\* A file that holds the JSON text of the value v.
JsonText(v) == [json |-> v]

\* A document as saveUserData writes it.
SavedDocument(userId) ==
    updateMetadata([userId |-> Str(sanitizePhoneNumber(userId)),
                    records |-> <<newRecord([content |-> Str(<<"c">>)], 0, "r1")>>],
                   0)

\* What the file of the user may hold: nothing; a text cut short; a saved
\* document, plain, encrypted, and encrypted under another key; the JSON
\* texts null, an object without records, an object whose records hold
\* null, and one whose record has neither date nor category.
FileShapes(userId) ==
    {NoFile, Truncated,
     JsonText(SavedDocument(userId)),
     encryptData(JsonText(SavedDocument(userId)), getMasterKey(null), "r1"),
     encryptData(JsonText(SavedDocument(userId)),
                 scryptSync("another-device", "salt"), "r1"),
     JsonText(null),
     JsonText([userId |-> Str(sanitizePhoneNumber(userId))]),
     JsonText([records |-> <<null>>]),
     JsonText([records |-> <<[content |-> Str(<<"c">>)]>>])}

ExportUserData(userId, encrypted, io) ==
    \E res \in {exportUserData(userId, encrypted, files, masterKey, now, io)} :
       /\ masterKey' = res.masterKey
       /\ call' = StoreCall("exportUserData", userId, FALSE, FALSE, FALSE, "none")
       /\ UNCHANGED <<now, files, sessionVars, otherVars, tasks>>

ShapeInit ==
    /\ now = 0
    /\ sessions = {}
    /\ ret = Call("constructor", NoUser, undefined, undefined, FALSE,
                  NotMeasured, {})
    /\ lastOk = [u \in SessionUsers |-> undefined]
    /\ dead = [u \in SessionUsers |-> undefined]
    /\ masterKey = null
    /\ tasks = [k \in Tasks |-> IdleTask]
    /\ call = StoreCall("initializeDatabase", NoUserId, TRUE, FALSE, FALSE, "none")
    /\ OtherStart
    /\ \E u \in UserIds : \E shape \in FileShapes(u) :
           files = [p \in Paths |->
                       IF p = getUserDataPath(u) THEN shape ELSE NoFile]

ShapeNext ==
    \/ \E u \in UserIds, e \in BOOLEAN, io \in ReadFaults : LoadUserData(u, e, io)
    \/ \E u \in UserIds, e \in BOOLEAN, io \in ReadFaults : GetAllRecords(u, e, io)
    \/ \E u \in UserIds, d \in DateInputs, e \in BOOLEAN, io \in ReadFaults :
           GetRecordsByDate(u, d, e, io)
    \/ \E u \in UserIds, days \in 0..Today(MaxClock), e \in BOOLEAN,
          io \in ReadFaults : GetRecentRecords(u, days, e, io)
    \/ \E u \in UserIds, e \in BOOLEAN, io \in ReadFaults :
           ExportUserData(u, e, io)
    \/ Tick

ShapeSpec == ShapeInit /\ [][ShapeNext]_vars

(***************************************************************************)
(* The global sessionManager with its sweep timer. security.js starts the  *)
(* timer with setInterval when it is loaded, at instant 0, and the timer    *)
(* fires every SweepInterval. The calls of the users arrive up to          *)
(* MaxClock; the clock then runs on for a timeout and a period more, long  *)
(* enough for the sessions that are left to age and for the timer to fire. *)
(***************************************************************************)
\* The callback of setInterval: the timer fires at sweepAt and is due again
\* one period later.
Sweep ==
    /\ now = sweepAt
    /\ sweepAt' = sweepAt + SweepInterval
    /\ sessions' = cleanupExpiredSessions(sessions, now)
    /\ ret' = Call("cleanupExpiredSessions", NoUser, undefined, undefined,
                    FALSE, NotMeasured, MapKeys(sessions) \ MapKeys(sessions'))
    /\ lastOk' = Forget(lastOk, MapKeys(sessions) \ MapKeys(sessions'))
    /\ UNCHANGED <<now, dead, storeVars, pin, proc, retry>>

\* Time passes, and never past the instant the timer is due before the
\* timer has fired.
Elapse ==
    /\ now < MaxClock + timeoutMs + SweepInterval
    /\ now < sweepAt
    /\ now' = now + 1
    /\ UNCHANGED <<sessionVars, storeVars, otherVars>>

\* One value of the random part of a token is enough here: the tokens of
\* two createSession calls differ by their instant.
SweepNext ==
    \/ \E u \in SessionUsers, r \in {"r1"} :
           now <= MaxClock /\ CreateSession(u, r)
    \/ \E u \in SessionUsers : \E t \in TokenInputs(u) :
           now <= MaxClock /\ ValidateSession(u, t)
    \/ \E u \in SessionUsers : now <= MaxClock /\ UpdateActivity(u)
    \/ \E u \in SessionUsers : now <= MaxClock /\ DestroySession(u)
    \/ Sweep
    \/ Elapse

\* The timer is fair: a timer that is due fires, and time does not stop.
SweepSpec ==
    /\ SessionInit
    /\ [][SweepNext]_vars
    /\ WF_vars(Sweep)
    /\ WF_vars(Elapse)

(***************************************************************************)
(* retryWithBackoff of utils.js as the steps of its async body: a call of  *)
(* fn, the promise of fn settling, the sleep between two attempts. fn is    *)
(* any function; each of its calls resolves to a value or rejects with an   *)
(* error (a throw inside fn is caught by the same catch block).             *)
(***************************************************************************)
MaxRetries == 3
MaxDelay == 2

FnValues == {Str(<<"v">>), undefined}
FnErrors == {[error |-> "e1"], [error |-> "e2"]}

\* const waitTime = delayMs * Math.pow(2, i)
waitTime(delayMs, i) == delayMs * 2^i

\* The for loop at its condition, with i already set: another call of fn,
\* or throw lastError after the loop.
loopTest(r) ==
    IF r.i < r.maxRetries
    THEN [r EXCEPT !.pc = "calling", !.calls = @ + 1]
    ELSE [r EXCEPT !.pc = "thrown", !.outcome = r.lastError]

\* Mutant: the loop makes one attempt more.
onRejected_extra(r, error) ==
    LET caught == [r EXCEPT !.lastError = error, !.errors = Append(@, error)]
    IN IF r.i < r.maxRetries - 1
       THEN [caught EXCEPT !.pc = "sleeping",
                           !.waits = Append(@, waitTime(r.delayMs, r.i))]
       ELSE IF r.i < r.maxRetries
       THEN [caught EXCEPT !.i = @ + 1, !.pc = "calling", !.calls = @ + 1]
       ELSE [caught EXCEPT !.i = @ + 1, !.pc = "thrown", !.outcome = error]

\* The catch block: remember the error; sleep unless this was the last
\* attempt, and then go on with the loop.
onRejected(r, error) ==
    LET caught == [r EXCEPT !.lastError = error, !.errors = Append(@, error)]
    IN IF r.i < r.maxRetries - 1
       THEN [caught EXCEPT !.pc = "sleeping",
                           !.waits = Append(@, waitTime(r.delayMs, r.i))]
       ELSE loopTest([caught EXCEPT !.i = @ + 1])

\* A call retryWithBackoff(fn, maxRetries, delayMs) begins: let lastError,
\* i = 0 and the first test of the loop.
RetryWithBackoff(maxRetries, delayMs) ==
    /\ retry.pc \in {"idle", "returned", "thrown"}
    /\ retry' = loopTest([NoRetry EXCEPT !.maxRetries = maxRetries,
                                         !.delayMs = delayMs])
    /\ UNCHANGED <<now, sessionVars, storeVars, pin, proc, sweepAt>>

\* return await fn(): the promise of fn resolves.
FnResolves(value) ==
    /\ retry.pc = "calling"
    /\ retry' = [retry EXCEPT !.pc = "returned", !.outcome = value]
    /\ UNCHANGED <<now, sessionVars, storeVars, pin, proc, sweepAt>>

\* fn throws or its promise rejects.
FnRejects(error) ==
    /\ retry.pc = "calling"
    /\ retry' = onRejected(retry, error)
    /\ UNCHANGED <<now, sessionVars, storeVars, pin, proc, sweepAt>>

\* The timer of sleep fires: i++ and the test of the loop.
Wake ==
    /\ retry.pc = "sleeping"
    /\ retry' = loopTest([retry EXCEPT !.i = @ + 1])
    /\ UNCHANGED <<now, sessionVars, storeVars, pin, proc, sweepAt>>

\* The promise of fn settles.
Settle ==
    \/ \E value \in FnValues : FnResolves(value)
    \/ \E error \in FnErrors : FnRejects(error)

RetryNext ==
    \/ \E maxRetries \in 0..MaxRetries, delayMs \in 0..MaxDelay :
           RetryWithBackoff(maxRetries, delayMs)
    \/ \E value \in FnValues : FnResolves(value)
    \/ \E error \in FnErrors : FnRejects(error)
    \/ Wake

\* Every call of fn settles, and the timer of every sleep fires.
RetrySpec ==
    /\ SessionInit
    /\ [][RetryNext]_vars
    /\ WF_vars(Settle)
    /\ WF_vars(Wake)

(***************************************************************************)
(* Properties of the session table.                                        *)
(***************************************************************************)
\* A step that does not move the clock is a call; ret' describes it.
ValidateStep(u) ==
    now' = now /\ ret'.op = "validateSession" /\ ret'.userId = u

CleanupStep == now' = now /\ ret'.op = "cleanupExpiredSessions"

\* C1: validateSession(u, t) returns true exactly when a session is stored
\* for u, its token is t and now - lastActivity <= timeoutMs; when it returns
\* true the session's lastActivity becomes now.
C1_ValidateIff ==
    [][\A u \in SessionUsers :
          ValidateStep(u) =>
              LET s == MapGet(sessions, u)
              IN /\ ret'.result = (/\ s # undefined
                                   /\ s.token = ret'.token
                                   /\ now - s.lastActivity <= timeoutMs)
                 /\ ret'.result => MapGet(sessions', u).lastActivity = now]_vars

\* A validateSession that found the idle time equal to the timeout returned
\* true and refreshed lastActivity.
C1_Witness ==
    /\ ret.op = "validateSession"
    /\ ret.result = TRUE
    /\ ret.idle = timeoutMs
    /\ MapGet(sessions, ret.userId).lastActivity = now

\* C2: validateSession(u, T) right after createSession(u) returned T is true;
\* a validateSession(u, T) that finds the idle time above the timeout returns
\* false and removes the session; from then on validateSession(u, T) returns
\* false until the next createSession(u).
C2_ExpiredStaysInvalid ==
    [][\A u \in SessionUsers :
          ValidateStep(u) =>
              LET s == MapGet(sessions, u)
              IN /\ (/\ ret.op = "createSession"
                     /\ ret.userId = u
                     /\ ret'.token = ret.token
                     /\ lastOk[u] = [at |-> now]) => ret'.result = TRUE
                 /\ (/\ s # undefined
                     /\ s.token = ret'.token
                     /\ now - s.lastActivity > timeoutMs)
                        => ret'.result = FALSE /\ ~MapHas(sessions', u)
                 /\ dead[u] = ret'.token => ret'.result = FALSE]_vars

\* The token that was rejected for expiry is tried again, later, and is
\* rejected again although no session is left to expire.
C2_Witness ==
    /\ ret.op = "validateSession"
    /\ ret.token = dead[ret.userId]
    /\ ret.idle = NotMeasured
    /\ ret.result = FALSE
    /\ ~MapHas(sessions, ret.userId)

\* C3: validateSession(u, t) returns false whenever a session is stored for
\* u and t differs from its token, whatever the session's idle time.
C3_WrongTokenRejected ==
    [][\A u \in SessionUsers :
          (/\ ValidateStep(u)
           /\ MapHas(sessions, u)
           /\ MapGet(sessions, u).token # ret'.token) => ret'.result = FALSE]_vars

\* A token that is not the stored one was rejected while the user's session
\* was within its timeout.
C3_Witness ==
    /\ ret.op = "validateSession"
    /\ MapHas(sessions, ret.userId)
    /\ MapGet(sessions, ret.userId).token # ret.token
    /\ now - MapGet(sessions, ret.userId).lastActivity <= timeoutMs
    /\ ret.result = FALSE

\* C4: the table never holds two sessions of one user; createSession(u)
\* replaces the entry of u and leaves the others; in the calls that follow
\* it, validateSession(u, oldToken) is false when oldToken differs from the
\* new token, and validateSession(u, newToken) is true while the session is
\* not idle for more than the timeout.
C4_OneSessionPerUser ==
    /\ [](\A e1, e2 \in sessions : e1.key = e2.key => e1 = e2)
    /\ [][\A u \in SessionUsers :
             /\ (now' = now /\ ret'.op = "createSession" /\ ret'.userId = u)
                   => /\ {e \in sessions' : e.key # u} = {e \in sessions : e.key # u}
                      /\ {e.value.token : e \in {x \in sessions' : x.key = u}}
                            = {ret'.token}
             /\ (ValidateStep(u) /\ ret.op = "createSession" /\ ret.userId = u)
                   => /\ (ret.old # undefined /\ ret.old # ret.token
                             /\ ret'.token = ret.old) => ret'.result = FALSE
                      /\ (ret'.token = ret.token /\ now - lastOk[u].at <= timeoutMs)
                            => ret'.result = TRUE]_vars

\* A second createSession for a user overwrote the first session with a
\* different token and the table still holds one session for that user.
C4_Witness ==
    /\ ret.op = "createSession"
    /\ ret.old # undefined
    /\ ret.old # ret.token
    /\ Cardinality({e \in sessions : e.key = ret.userId}) = 1
    /\ MapGet(sessions, ret.userId).token = ret.token

\* C5: cleanupExpiredSessions removes exactly the sessions with
\* now - lastActivity > timeoutMs and leaves every other entry as it was.
C5_CleanupExact ==
    [][CleanupStep =>
          sessions' = {e \in sessions : ~(now - e.value.lastActivity > timeoutMs)}]_vars

\* A sweep removed one user's session and kept another that was idle for
\* exactly the timeout.
C5_Witness ==
    /\ ret.op = "cleanupExpiredSessions"
    /\ ret.gone # {}
    /\ \E e \in sessions : now - e.value.lastActivity = timeoutMs

\* C6: a validateSession with the stored token at most timeoutMs after the
\* session's createSession or latest successful validateSession returns
\* true, however old the session is; a sweep at most timeoutMs after that
\* instant keeps the session.
C6_SlidingExpiry ==
    [][\A u \in SessionUsers :
          (lastOk[u] # undefined /\ now - lastOk[u].at <= timeoutMs) =>
              /\ (/\ ValidateStep(u)
                  /\ MapHas(sessions, u)
                  /\ MapGet(sessions, u).token = ret'.token) => ret'.result = TRUE
              /\ CleanupStep => MapHas(sessions', u)]_vars

\* A session older than the timeout was validated successfully.
C6_Witness ==
    /\ ret.op = "validateSession"
    /\ ret.result = TRUE
    /\ now - MapGet(sessions, ret.userId).createdAt > timeoutMs

(***************************************************************************)
(* Properties of the record store. A step of StoreSpec that does not move  *)
(* the clock is a call; call' names it.                                    *)
(***************************************************************************)
StoreStep(ops) == now' = now /\ call'.op \in ops

Timestamp(record) == DateParse(Prop(record, "timestamp"))

IsSortedDesc(records) ==
    \A i \in 1..(Len(records) - 1) :
        Timestamp(records[i]) >= Timestamp(records[i + 1])

\* C7: after an addRecord that returns true the records of the file it wrote
\* are in descending order of timestamp; when it added to records that are
\* all older than the new one, the new record comes first and the older
\* ones follow it.
C7_SortedAfterAdd ==
    [][(StoreStep({"addRecord"}) /\ call'.result) =>
          \A p \in Paths :
              LET old == PersistedRecords(files[p])
                  new == PersistedRecords(files'[p])
              IN files'[p] # files[p] =>
                    /\ IsSortedDesc(new)
                    /\ (/\ Len(new) = Len(old) + 1
                        /\ \A i \in 1..Len(old) : Timestamp(old[i]) < now)
                          => /\ new[1].timestamp = toISOString(now)
                             /\ \A i \in 1..Len(old) :
                                    \E j \in 2..Len(new) : new[j] = old[i]]_vars

\* An addRecord returned true, and the file holds the record of this instant
\* ahead of an older one.
C7_Witness ==
    /\ call.op = "addRecord"
    /\ call.result
    /\ \E p \in Paths :
           LET records == PersistedRecords(files[p])
           IN /\ Len(records) >= 2
              /\ records[1].timestamp = toISOString(now)
              /\ Timestamp(records[1]) > Timestamp(records[2])

\* C8: after a saveUserData or an addRecord that returns true a document is
\* stored, and metadata.totalRecords of every stored document is the length
\* of its records.
C8_TotalRecords ==
    [][(StoreStep({"saveUserData", "addRecord"}) /\ call'.result) =>
          /\ \E p \in Paths : Persisted(files'[p]) # undefined
          /\ \A p \in Paths :
                 Persisted(files'[p]) # undefined =>
                     Persisted(files'[p]).metadata.totalRecords
                         = Len(Persisted(files'[p]).records)]_vars

\* A save succeeded and a stored document counts its two records.
C8_Witness ==
    /\ call.op \in {"saveUserData", "addRecord"}
    /\ call.result
    /\ \E p \in Paths :
           /\ Persisted(files[p]) # undefined
           /\ Len(Persisted(files[p]).records) = 2
           /\ Persisted(files[p]).metadata.totalRecords = 2

\* C9: every record stored before an addRecord that returns true is stored
\* after it, and the file it wrote holds exactly one record more.
C9_AppendOnly ==
    [][(StoreStep({"addRecord"}) /\ call'.result) =>
          \A p \in Paths :
              LET old == PersistedRecords(files[p])
                  new == PersistedRecords(files'[p])
              IN /\ \A i \in 1..Len(old) : \E j \in 1..Len(new) : new[j] = old[i]
                 /\ files'[p] # files[p] => Len(new) = Len(old) + 1]_vars

\* Whether loadUserData can read, decrypt and parse the content.
Loadable(content, encrypted) ==
    IF encrypted
    THEN /\ IsBlob(content)
         /\ Authentic(content, getMasterKey(masterKey))
         /\ IsJSON(content.encrypted.aes[3])
    ELSE IsJSON(content)

IsEmptyData(data) ==
    /\ data.records = <<>>
    /\ data.metadata.totalRecords = 0

\* C10: loadUserData never throws; with no file it returns empty data
\* without metadata.error; with a file it cannot read, decrypt or parse it
\* returns empty data with metadata.error; it leaves the files as they are.
C10_LoadNeverThrows ==
    /\ [](\A u \in UserIds, e \in BOOLEAN, io \in ReadFaults :
             LET res == loadUserData(u, e, files, masterKey, now, io)
                 content == files[getUserDataPath(u)]
             IN /\ ~res.threw
                /\ content = NoFile =>
                       /\ IsEmptyData(res.data)
                       /\ "error" \notin DOMAIN res.data.metadata
                /\ (content # NoFile
                        /\ (io.read = "fail" \/ ~Loadable(content, e))) =>
                       /\ IsEmptyData(res.data)
                       /\ "error" \in DOMAIN res.data.metadata)
    /\ [][StoreStep({"loadUserData"}) => files' = files /\ ~call'.threw]_vars

\* A loadUserData returned data marked with metadata.error while the user's
\* file exists.
C10_Witness ==
    /\ call.op = "loadUserData"
    /\ call.error
    /\ ~call.threw
    /\ \E p \in Paths : files[p] # NoFile

\* C11: saveUserData never throws and returns false whenever the encryption
\* or the write fails; addRecord never throws and returns false exactly
\* when its load-append-sort step throws or its save fails.
C11_FailureIsFalse ==
    /\ [][StoreStep({"saveUserData", "addRecord"}) =>
             /\ ~call'.threw
             /\ call'.failed = "save" => ~call'.result]_vars
    /\ [][StoreStep({"addRecord"}) =>
             (call'.result <=> call'.failed = "none")]_vars

\* An addRecord whose save failed returned false on a store that already
\* holds a record.
C11_Witness ==
    /\ call.op = "addRecord"
    /\ call.failed = "save"
    /\ ~call.result
    /\ ~call.threw
    /\ RecordCount(files, Paths) >= 1

\* C12: a saveUserData, called directly or by addRecord, that returns true
\* leaves a complete document in the file it wrote, one that returns false
\* leaves every file as it was, and no file is ever cut short.
C12_SaveAtomic ==
    /\ [][StoreStep({"saveUserData", "addRecord"}) =>
             IF call'.result
             THEN \A p \in Paths :
                      files'[p] # files[p] => Persisted(files'[p]) # undefined
             ELSE files' = files]_vars
    /\ [](\A p \in Paths : files[p] # Truncated)

\* Whether the record has a value under the key.
HasValue(record, key) == ~Falsy(Prop(record, key))

\* C13: after an addRecord that returns true every record of the file it
\* wrote has a date and a category.
C13_DateAndCategory ==
    [][(StoreStep({"addRecord"}) /\ call'.result) =>
          \A p \in Paths :
              files'[p] # files[p] =>
                  \A i \in 1..Len(PersistedRecords(files'[p])) :
                      /\ HasValue(PersistedRecords(files'[p])[i], "date")
                      /\ HasValue(PersistedRecords(files'[p])[i], "category")]_vars

\* The records loadUserData hands to a query: those of the stored document
\* when the file is read and decoded under the flag, none otherwise.
LoadedRecords(userId, encrypted, io) ==
    LET content == files[getUserDataPath(userId)]
    IN IF content # NoFile /\ io.read = "ok" /\ Loadable(content, encrypted)
       THEN PersistedRecords(content)
       ELSE <<>>

\* got holds exactly the records of stored at the positions in keep, in the
\* order of stored.
IsSelection(got, stored, keep) ==
    /\ Len(got) = Cardinality(keep)
    /\ \A j \in keep :
           got[Cardinality({k \in keep : k <= j})] = stored[j]

\* C14: getRecordsByDate returns exactly the loaded records whose date is
\* the string asked for, whatever their category, in stored order.
C14_ByDateExact ==
    \A u \in UserIds, d \in DateInputs, e \in BOOLEAN, io \in ReadFaults :
        LET stored == LoadedRecords(u, e, io)
            got == getRecordsByDate(u, d, e, files, masterKey, now, io).records
        IN IsSelection(got, stored,
                       {j \in 1..Len(stored) : Prop(stored[j], "date") = d})

\* getRecordsByDate was called on a store with two records of different
\* dates, and returns one of them for some date.
C14_Witness ==
    /\ call.op = "getRecordsByDate"
    /\ \E u \in UserIds, d \in DateInputs, e \in BOOLEAN :
           /\ Len(LoadedRecords(u, e, NoFault)) = 2
           /\ Len(getRecordsByDate(u, d, e, files, masterKey, now,
                                   NoFault).records) = 1

\* The day a zero-padded date string names; -1 for anything else.
DayOf(v) ==
    IF "str" \in DOMAIN v /\ Len(v.str) = 2
          /\ v.str[1] \in Digits /\ v.str[2] \in Digits
    THEN 10 * CharCode(v.str[1]) + CharCode(v.str[2])
    ELSE 0 - 1

\* C15: getRecentRecords(u, days) returns exactly the loaded records dated
\* on or after the day that lies days before today, that day included, in
\* stored order.
C15_RecentInclusive ==
    \A u \in UserIds, days \in 0..Today(now), e \in BOOLEAN, io \in ReadFaults :
        LET stored == LoadedRecords(u, e, io)
            got == getRecentRecords(u, days, e, files, masterKey, now,
                                    io).records
        IN IsSelection(got, stored,
                       {j \in 1..Len(stored) :
                            DayOf(Prop(stored[j], "date")) >= Today(now) - days})

\* getRecentRecords was called on a store with a record of today and one of
\* yesterday: 0 days back gives the first only, 1 day back gives both.
C15_Witness ==
    /\ call.op = "getRecentRecords"
    /\ Today(now) >= 1
    /\ \E u \in UserIds, e \in BOOLEAN :
           LET stored == LoadedRecords(u, e, NoFault)
           IN /\ Len(stored) = 2
              /\ {DayOf(Prop(stored[j], "date")) : j \in 1..2}
                     = {Today(now), Today(now) - 1}
              /\ Len(getRecentRecords(u, 0, e, files, masterKey, now,
                                      NoFault).records) = 1
              /\ Len(getRecentRecords(u, 1, e, files, masterKey, now,
                                      NoFault).records) = 2

\* Whether loadUserData and every query find nothing for the user on the
\* files fs, under either flag and whether or not the read fails.
Emptied(u, fs, key, t) ==
    \A e \in BOOLEAN, io \in ReadFaults :
        /\ IsEmptyData(loadUserData(u, e, fs, key, t, io).data)
        /\ getAllRecords(u, e, fs, key, t, io).records = <<>>
        /\ \A d \in DateInputs :
               getRecordsByDate(u, d, e, fs, key, t, io).records = <<>>
        /\ \A days \in 0..Today(t) :
               getRecentRecords(u, days, e, fs, key, t, io).records = <<>>

C17_DeleteResult ==
    [][StoreStep({"deleteUserData"}) =>
          LET p == getUserDataPath(call'.userId)
          IN /\ call'.result <=> (files[p] # NoFile /\ files'[p] = NoFile)
             /\ files[p] = NoFile => (~call'.result /\ files' = files)
             /\ \A q \in Paths \ {p} : files'[q] = files[q]
             /\ (call.op = "deleteUserData" /\ call.result
                    /\ call.userId = call'.userId) => ~call'.result]_vars

\* A deleteUserData found no file and returned false.
C17_Witness ==
    /\ call.op = "deleteUserData"
    /\ ~call.result
    /\ files[getUserDataPath(call.userId)] = NoFile

\* Whether loadUserData returns for v after the step what it returned before.
SameDocument(v) ==
    \A e \in BOOLEAN :
        loadUserData(v, e, files', masterKey', now', NoFault).data
            = loadUserData(v, e, files, masterKey, now, NoFault).data

\* C18 as stated: an addRecord, saveUserData or deleteUserData for an
\* identifier leaves the document of every other identifier as it was.
C18_OtherIdentifierUntouched ==
    [][StoreStep({"addRecord", "saveUserData", "deleteUserData"}) =>
          \A v \in IsolationIds :
              v # call'.userId => SameDocument(v)]_vars

\* C18: an addRecord, saveUserData or deleteUserData for an identifier
\* leaves the file and the document of every identifier with other digits
\* as they were, in whatever order the calls are made.
C18_OtherNumberUntouched ==
    [][StoreStep({"addRecord", "saveUserData", "deleteUserData"}) =>
          \A v \in IsolationIds :
              sanitizePhoneNumber(v) # sanitizePhoneNumber(call'.userId)
                 => /\ files'[getUserDataPath(v)] = files[getUserDataPath(v)]
                    /\ SameDocument(v)]_vars

\* An addRecord for one number succeeded while another number has a stored
\* record.
C18_Witness ==
    /\ call.op = "addRecord"
    /\ call.result
    /\ \E v \in IsolationIds :
           /\ sanitizePhoneNumber(v) # sanitizePhoneNumber(call.userId)
           /\ Len(PersistedRecords(files[getUserDataPath(v)])) >= 1
           /\ Len(PersistedRecords(files[getUserDataPath(call.userId)])) >= 1

\* What JSON.stringify keeps of the records.
Stored(records) == [i \in DOMAIN records |-> DropUndefined(records[i])]

\* Both callers have returned true, and one of them saved while the other
\* had loaded and not yet saved.
Raced ==
    /\ \A k \in Tasks : tasks[k].pc = "done" /\ tasks[k].result
    /\ \E k \in Tasks : tasks[k].stale

\* C19: when both callers loaded before either saved and both returned
\* true, the file holds what the later saver wrote: the records it had
\* loaded and its own new record, and not the new record of the other.
C19_LastWriterWins ==
    Raced =>
        \A u \in UserIds :
            LET last == CHOOSE k \in Tasks : tasks[k].stale
                recs == PersistedRecords(files[getUserDataPath(u)])
            IN /\ recs = Stored(sortRecords(Append(tasks[last].userData.records,
                                                   tasks[last].added)))
               /\ \E i \in 1..Len(recs) :
                      recs[i] = DropUndefined(tasks[last].added)
               /\ \A k \in Tasks \ {last} :
                      \A i \in 1..Len(recs) :
                          recs[i] # DropUndefined(tasks[k].added)

\* The race has happened on a file that held a record before.
C19_Witness ==
    /\ Raced
    /\ \E u \in UserIds :
           Len(PersistedRecords(files[getUserDataPath(u)])) = 2

\* A string without a lone surrogate.
WellFormed(P) ==
    "str" \in DOMAIN P => \A i \in DOMAIN P.str : P.str[i] # LoneSurrogate

\* The documents of the round trip: those saveUserData is called with, and
\* one whose record has a key without a value and a lone surrogate in its
\* content.
RoundTripDocs(u) ==
    DataInputs(u)
        \cup {[userId |-> Str(sanitizePhoneNumber(u)),
               records |-> <<newRecord([category |-> undefined,
                                        content |-> Str(<<LoneSurrogate>>)],
                                       0, "r1")>>]}

\* The plaintexts encryptData is given: the empty string, short strings
\* with and without a lone surrogate, and the JSON text of the documents.
Plaintexts ==
    {Str(<<>>), Str(<<"c">>), Str(<<"c", LoneSurrogate>>)}
        \cup {JSONstringify(updateMetadata(d, now)) :
                  d \in UNION {RoundTripDocs(u) : u \in UserIds}}

Mutated(content) == content # NoFile /\ ~Genuine(content)

\* C21: decryptData fails on every blob that differs in a single bit from
\* one encryptData produced, and never returns another plaintext than the
\* one encrypted.
C21_EveryFlipFails ==
    \A p \in Paths :
        Mutated(files[p]) => decryptData(files[p], masterKey).threw

\* C22: isValidPIN returns true exactly for the strings of 4, 5 or 6
\* characters that are all ASCII digits.
C22_FourToSixDigits ==
    pin.result # undefined =>
        (pin.result.bool <=>
             /\ Len(pin.input.str) \in {4, 5, 6}
             /\ \A i \in 1..Len(pin.input.str) : pin.input.str[i] \in Digits)

\* isValidPIN has rejected six digits followed by something else.
C22_Witness ==
    /\ pin.result = [bool |-> FALSE]
    /\ Len(pin.input.str) = 7
    /\ \A i \in 1..6 : pin.input.str[i] \in Digits

\* A step that does not move the clock is a call of the processor; proc'
\* describes it.
ProcStep(op) == now' = now /\ proc'.op = op

\* C23: when the message is classified as a record and addRecord returns
\* false, processNaturalMessage returns the could-not-save reply and does
\* not call the AI responder; a record message is answered by the AI only
\* when its record is in the user's file.
C23_FailedSaveReported ==
    [][ProcStep("processNaturalMessage") =>
          /\ (proc'.isRecord /\ ~proc'.recordSaved) =>
                 proc'.reply = CouldNotSave /\ ~proc'.sentToGemini
          /\ (proc'.isRecord /\ proc'.sentToGemini) =>
                 \E u \in UserIds :
                     LET recs == PersistedRecords(files'[getUserDataPath(u)])
                     IN \E i \in 1..Len(recs) :
                            /\ recs[i].id = generateRecordId(now, "r1")
                            /\ recs[i].originalMessage = Str(<<"m">>)]_vars

\* A record message met a failing save and was answered with the
\* could-not-save reply, without a call of the AI responder.
C23_Witness ==
    /\ proc.op = "processNaturalMessage"
    /\ proc.isRecord
    /\ proc.reply = CouldNotSave
    /\ ~proc.sentToGemini

\* C24: under every accepted configuration that does not set
\* security.enableEncryption to false, the store calls of processCommand
\* and processNaturalMessage that take the argument run with encrypted =
\* true.
C24_EncryptedByDefault ==
    [][(ProcStep("processCommand") \/ ProcStep("processNaturalMessage")) =>
          (Prop(proc'.config.security, "enableEncryption") # Bool(FALSE) =>
               \A c \in proc'.storeCalls :
                   c.encrypted # undefined => c.encrypted = Bool(TRUE))]_vars

\* C25: whatever the file of the user holds, getRecordsByDate,
\* getRecentRecords and getAllRecords return a list and exportUserData
\* returns a text, and none of them throws or changes the file.
C25_ReadsDegrade ==
    /\ [](\A u \in UserIds, e \in BOOLEAN, io \in ReadFaults :
             /\ getAllRecords(u, e, files, masterKey, now, io).list
             /\ \A d \in DateInputs :
                    Len(getRecordsByDate(u, d, e, files, masterKey, now,
                                         io).records) >= 0
             /\ \A days \in 0..Today(now) :
                    Len(getRecentRecords(u, days, e, files, masterKey, now,
                                         io).records) >= 0
             /\ LET text == exportUserData(u, e, files, masterKey, now, io).text
                IN "message" \in DOMAIN text \/ "sections" \in DOMAIN text)
    /\ [][StoreStep({"getAllRecords", "getRecordsByDate", "getRecentRecords",
                     "exportUserData"}) =>
              files' = files /\ ~call'.threw]_vars

\* The number of records the report shows under its first n headings.
RECURSIVE Shown(_, _)
Shown(sections, n) ==
    IF n = 0 THEN 0 ELSE Len(sections[n].entries) + Shown(sections, n - 1)

\* C26: exportUserData returns the no-records message exactly when the
\* user has no record; otherwise it returns the report, which shows every
\* stored record once, under the heading of its date, the headings being
\* distinct and in descending order of date.
C26_ExportComplete ==
    \A u \in UserIds, e \in BOOLEAN :
        LET stored == LoadedRecords(u, e, NoFault)
            text == exportUserData(u, e, files, masterKey, now, NoFault).text
        IN /\ text = NoRecordsMessage <=> stored = <<>>
           /\ stored # <<>> =>
                  /\ "sections" \in DOMAIN text
                  /\ Shown(text.sections, Len(text.sections)) = Len(stored)
                  /\ \A j \in 1..Len(stored) :
                         \E i \in 1..Len(text.sections) :
                             /\ text.sections[i].heading = formatDateBR(stored[j].date)
                             /\ \E k \in 1..Len(text.sections[i].entries) :
                                    text.sections[i].entries[k] = ExportEntry(stored[j])
                  /\ \A i, k \in 1..Len(text.sections) :
                         i < k =>
                             /\ text.sections[i].heading # text.sections[k].heading
                             /\ StringGE(text.sections[i].heading.ddmmyyyy,
                                         text.sections[k].heading.ddmmyyyy)

\* User u has a session whose latest activity was at instant a.
IdleSince(u, a) ==
    \E e \in sessions : e.key = u /\ e.value.lastActivity = a

\* C27: under the fair sweep timer every session that is not refreshed any
\* more (no createSession, successful validateSession or updateActivity
\* moves its lastActivity) leaves the session table, and no session is in
\* the table later than one sweep interval after its idle time first
\* exceeded the timeout.
C27_AbandonedRemoved ==
    /\ [](\A e \in sessions :
              now - e.value.lastActivity <= timeoutMs + SweepInterval)
    /\ \A u \in SessionUsers : \A a \in 0..MaxClock :
           IdleSince(u, a) ~> ~IdleSince(u, a)
    /\ <>[](sessions = {})

\* The timer has just fired and removed a session that had been idle for
\* the timeout and a whole sweep interval.
C27_Witness ==
    /\ ret.op = "cleanupExpiredSessions"
    /\ ret.gone # {}
    /\ sweepAt = now + SweepInterval
    /\ now > MaxClock

\* C28: updateActivity(u) sets lastActivity of the stored session of u to
\* now, whatever its token and however long it has been idle, and changes
\* nothing else, so that validateSession with the session's token returns
\* true from then on for as long as the timeout; for a user without a
\* session it leaves the table as it is.
C28_UpdateRevives ==
    [][\A u \in SessionUsers :
          (ret'.op = "updateActivity" /\ ret'.userId = u /\ now' = now) =>
              LET session == MapGet(sessions, u)
              IN IF session = undefined
                 THEN sessions' = sessions
                 ELSE /\ sessions' =
                             MapSet(sessions, u,
                                    [session EXCEPT !.lastActivity = now])
                      /\ \A t \in now..(now + timeoutMs) :
                             validateSession(sessions', u, session.token,
                                             t).result]_vars

\* updateActivity has reached a session that had been idle for longer than
\* the timeout, and the session's token is accepted again.
C28_Witness ==
    /\ ret.op = "updateActivity"
    /\ ret.idle > timeoutMs
    /\ MapHas(sessions, ret.userId)
    /\ MapGet(sessions, ret.userId).lastActivity = now
    /\ validateSession(sessions, ret.userId,
                       MapGet(sessions, ret.userId).token, now).result

\* C29: a validateSession that returns false because the user has no
\* session, or because the token is not the stored one, leaves the session
\* table as it was: no lastActivity is refreshed and no session removed,
\* also when the stored session has been idle for longer than the timeout.
C29_RejectedLeavesTable ==
    [][\A u \in SessionUsers :
          LET session == MapGet(sessions, u)
          IN (/\ ret'.op = "validateSession"
              /\ ret'.userId = u
              /\ now' = now
              /\ session = undefined \/ session.token # ret'.token)
                 => /\ ~ret'.result
                    /\ sessions' = sessions
                    /\ ret'.gone = {}]_vars

\* A validateSession with a token that is not the stored one has been
\* rejected while the stored session was idle for longer than the timeout,
\* and the session is still in the table.
C29_Witness ==
    /\ ret.op = "validateSession"
    /\ ~ret.result
    /\ MapHas(sessions, ret.userId)
    /\ MapGet(sessions, ret.userId).token # ret.token
    /\ now - MapGet(sessions, ret.userId).lastActivity > timeoutMs

\* A call of retryWithBackoff is under way.
Running == retry.pc \in {"calling", "sleeping"}

\* The call of retryWithBackoff is over.
Settled == retry.pc \in {"returned", "thrown"}

\* What sleep has been called with after n failed attempts that were not
\* the last one.
Backoff(n) == [k \in 1..n |-> retry.delayMs * 2^(k - 1)]

\* C30: retryWithBackoff(fn, maxRetries, delayMs) comes to an end (when
\* each call of fn settles) after at most maxRetries calls of fn. It
\* returns the value of the first call that succeeds and calls fn no more;
\* when maxRetries calls have failed it throws the error of the last one.
\* After the i-th failed attempt (i from 0) it sleeps delayMs * 2^i, and
\* it does not sleep after the last attempt.
C30_RetryTerminates ==
    /\ [](/\ retry.calls <= retry.maxRetries
          /\ retry.pc = "calling" =>
                 /\ retry.calls = Len(retry.errors) + 1
                 /\ retry.waits = Backoff(Len(retry.errors))
          /\ retry.pc = "sleeping" =>
                 /\ retry.calls = Len(retry.errors)
                 /\ retry.calls < retry.maxRetries
                 /\ retry.waits = Backoff(Len(retry.errors))
          /\ retry.pc = "returned" =>
                 /\ retry.calls = Len(retry.errors) + 1
                 /\ retry.outcome \in FnValues
                 /\ retry.waits = Backoff(Len(retry.errors))
          /\ retry.pc = "thrown" =>
                 /\ retry.calls = retry.maxRetries
                 /\ Len(retry.errors) = retry.maxRetries
                 /\ retry.maxRetries > 0 =>
                        /\ retry.outcome = retry.errors[retry.maxRetries]
                        /\ retry.waits = Backoff(retry.maxRetries - 1)
                 /\ retry.maxRetries = 0 =>
                        retry.outcome = undefined /\ retry.waits = <<>>)
    /\ [][(retry.pc = "calling" /\ retry'.pc = "returned") =>
              /\ retry'.outcome \in FnValues
              /\ retry'.calls = retry.calls
              /\ retry'.waits = retry.waits]_vars
    /\ [][Settled =>
              \/ retry' = retry
              \/ retry'.calls <= 1 /\ retry'.waits = <<>>
                     /\ retry'.errors = <<>>]_vars
    /\ \A n \in 0..MaxRetries : (retry.maxRetries = n /\ Running) ~> Settled

\* retryWithBackoff has returned the value of its last permitted attempt
\* after sleeping at least twice with a delay that is not zero.
C30_Witness ==
    /\ retry.pc = "returned"
    /\ retry.calls = retry.maxRetries
    /\ Len(retry.waits) >= 2
    /\ retry.delayMs > 0

=============================================================================
